---- MODULE Spec2Model ----
(***************************************************************************)
(* Chat, notification, proposal and task handlers of the freelancing       *)
(* server, over a document store with Mongoose's strict schemas.           *)
(*                                                                         *)
(* A document is a record; a schema is the set of its paths.  Constructing *)
(* or casting a document keeps the paths the schema declares and drops the *)
(* others (strict mode), reading a path the schema does not declare yields *)
(* undefined, and save() runs the schema's validators.                     *)
(***************************************************************************)
EXTENDS Integers, Sequences, FiniteSets, TLC

\* ------------------------------------------------------------------ bounds
MaxChats == 2
MaxProjects == 2
MaxNotifications == 2
MaxUserProjects == 3
MaxTasks == 4

\* ---------------------------------------------------------------- universe
Users == {"u1", "u2", "u3"}
Ghost == "ghost"            \* a well-formed id that names no User
TeamIds == {"t1"}
Undefined == "undefined"    \* absent user / team valued path
NoId == 0                   \* absent generated id (project, task, chat)
Emojis == {"like", "love"}

\* ------------------------------------------------------------- schemas
ChatPaths ==
  {"sender", "recipient", "team", "project", "content", "type", "isTeamMessage",
   "isProjectMessage", "isRead", "readBy", "replyTo", "reactions"}

ChatTypes == {"text", "image", "file", "system"}

ReactionPaths == {"user", "reaction", "createdAt"}

NotificationPaths ==
  {"recipient", "team", "type", "title", "content", "isRead", "project", "task",
   "message", "createdBy"}

NotificationTypes ==
  {"project", "proposal", "team", "task", "message", "payment", "milestone",
   "system", "badge"}

\* strict mode: only the paths of the schema are kept
Cast(obj, paths) == [k \in (DOMAIN obj) \cap paths |-> obj[k]]

\* reading a path of a document: undefined when the document has no such path
Has(doc, path) == path \in DOMAIN doc

Put(f, k, v) == (k :> v) @@ f

SeqToSet(s) == {s[i] : i \in DOMAIN s}

Remove(s, x) == SelectSeq(s, LAMBDA y : y # x)

\* ------------------------------------------------------------------ state
VARIABLES
  users,          \* User collection: id -> [role, teams, projects, notifications]
  teams,          \* Team collection: id -> [creator, name, members]
  projects,       \* Project collection: id -> document
  tasks,          \* Task collection: id -> document
  chats,          \* Chat collection: id -> document
  notifications,  \* Notification collection: id -> document
  nextId,         \* ids handed out so far, per collection (ObjectIds are never reused)
  sockets,        \* connected sockets: user -> socket.user, the User read at the handshake
  strictQuery,    \* whether the installed Mongoose strips undeclared paths from a filter
  inflight,       \* requests between their read and their save: request -> what it holds
  clock,          \* Date.now(), in units of the life of a password reset token
  outbox,         \* the calls made to the email service, in order: [to, token, kind]
  last            \* the response of the last request or socket event

vars ==
  <<users, teams, projects, tasks, chats, notifications, nextId, sockets,
    strictQuery, inflight, clock, outbox, last>>

\* ------------------------------------------------------------- documents
ChatDefaults ==
  [recipient |-> Undefined, team |-> Undefined, project |-> NoId, type |-> "text",
   isTeamMessage |-> FALSE, isProjectMessage |-> FALSE, isRead |-> FALSE,
   readBy |-> <<>>, replyTo |-> NoId, reactions |-> <<>>]

\* variant: the document is built without its sender
NewChat_Unsigned(obj) == Cast(obj, ChatPaths \ {"sender"}) @@ ChatDefaults

NewChat(obj) == Cast(obj, ChatPaths) @@ ChatDefaults

ValidChat(doc) ==
  /\ Has(doc, "sender") /\ doc.sender # Undefined
  /\ Has(doc, "content") /\ doc.content # Undefined
  /\ doc.type \in ChatTypes

NotificationDefaults ==
  [recipient |-> Undefined, team |-> Undefined, project |-> NoId, task |-> NoId,
   message |-> NoId, createdBy |-> Undefined, isRead |-> FALSE]

NewNotification(obj) == Cast(obj, NotificationPaths) @@ NotificationDefaults

ValidNotification(doc) ==
  /\ Has(doc, "type") /\ doc.type \in NotificationTypes
  /\ Has(doc, "title")
  /\ Has(doc, "content")

\* ----------------------------------------------------------- error handler
ErrorStatus(err) ==
  CASE err = "ValidationError" -> 400
    [] err = "CastError" -> 400
    [] err = "JsonWebTokenError" -> 401
    [] err = "TokenExpiredError" -> 401
    [] OTHER -> 500

\* what the caller gets: the HTTP status (0 on a socket), the event emitted back on a
\* socket, and the ids of the messages a read returns; ref keeps what the request named
\* in its path and body (ids, the new status, the emoji)
Respond(op, actor, status) ==
  [op |-> op, actor |-> actor, status |-> status, emit |-> "", messages |-> {}, ref |-> <<>>]

RespondMessages(op, actor, status, ids) ==
  [op |-> op, actor |-> actor, status |-> status, emit |-> "", messages |-> ids, ref |-> <<>>]

RespondRef(op, actor, status, ref) ==
  [op |-> op, actor |-> actor, status |-> status, emit |-> "", messages |-> {}, ref |-> ref]

RespondMessagesRef(op, actor, status, ids, ref) ==
  [op |-> op, actor |-> actor, status |-> status, emit |-> "", messages |-> ids, ref |-> ref]

Emit(op, actor, event) ==
  [op |-> op, actor |-> actor, status |-> 0, emit |-> event, messages |-> {}, ref |-> <<>>]

\* --------------------------------------------------------- notification fan-out
\* objs: the Notification objects a handler constructs, in the order it saves them;
\* failAt: the index of the save the store refuses (0: none).  Each save is followed
\* by the $push of the new id onto the recipient's notifications.
FirstBad(objs, failAt) ==
  LET bad == {i \in DOMAIN objs : i = failAt \/ ~ValidNotification(NewNotification(objs[i]))}
  IN IF bad = {} THEN 0 ELSE CHOOSE i \in bad : \A j \in bad : i <= j

FanOutError(objs, failAt) ==
  LET b == FirstBad(objs, failAt)
  IN IF b = 0 THEN "none"
     ELSE IF ~ValidNotification(NewNotification(objs[b])) THEN "ValidationError"
     ELSE "MongoError"

Saved(objs, failAt) ==
  LET b == FirstBad(objs, failAt)
  IN IF b = 0 THEN Len(objs) ELSE b - 1

FanOutNotifications(objs, failAt) ==
  [i \in {nextId.notification + k - 1 : k \in 1..Saved(objs, failAt)} |->
      NewNotification(objs[i - nextId.notification + 1])] @@ notifications

PushedTo(u, objs, failAt) ==
  LET RECURSIVE ids(_)
      ids(k) == IF k > Saved(objs, failAt) THEN <<>>
                ELSE (IF Has(objs[k], "recipient") /\ objs[k].recipient = u THEN <<nextId.notification + k - 1>> ELSE <<>>)
                     \o ids(k + 1)
  IN ids(1)

FanOutUsers(objs, failAt) ==
  [u \in DOMAIN users |->
     [users[u] EXCEPT !.notifications = @ \o PushedTo(u, objs, failAt)]]

FanOut(objs, failAt) ==
  /\ notifications' = FanOutNotifications(objs, failAt)
  /\ users' = FanOutUsers(objs, failAt)

\* ------------------------------------------------------------- membership
\* variant: the membership test lets everyone through
IsMember_Any(team, u) == TRUE

IsMember(team, u) == \E i \in DOMAIN team.members : team.members[i].user = u

IsProjectParticipant(project, u) ==
  LET isClient == project.client = u
      isAssignedFreelancer == \E i \in DOMAIN project.assignedFreelancers :
                                 project.assignedFreelancers[i] = u
      isTeamMember == IF project.assignedTeam # Undefined
                      THEN IsMember(teams[project.assignedTeam], u)
                      ELSE FALSE
  IN isClient \/ isAssignedFreelancer \/ isTeamMember

\* ------------------------------------------------------------------ Init
\* The store as earlier requests left it: one team, one project in progress whose
\* proposal by u2 was accepted, and two tasks of that project (task 2 a subtask of 1).
TeamChoices == {<<"u1", "u2">>, <<"u1", "u2", "u3">>}

RoleOf(u) == IF u = "u1" THEN "client" ELSE "student"

InitTeam(ms) ==
  [creator |-> ms[1], name |-> "team",
   members |-> [i \in DOMAIN ms |-> [user |-> ms[i], role |-> IF i = 1 THEN "leader" ELSE "member"]]]

InitProject(team) ==
  [client |-> "u1", title |-> "project", status |-> "in_progress",
   proposals |-> <<[_id |-> 1, freelancer |-> "u2", status |-> "accepted"]>>,
   assignedFreelancers |-> <<"u2">>, assignedTeam |-> team, tasks |-> <<1, 2>>]

InitTasks ==
  (1 :> [title |-> "task", project |-> 1, status |-> "not_started", assignedTo |-> <<>>,
         createdBy |-> "u2", parentTask |-> NoId, subtasks |-> <<2>>, dependencies |-> <<>>])
  @@
  (2 :> [title |-> "task", project |-> 1, status |-> "not_started", assignedTo |-> <<>>,
         createdBy |-> "u2", parentTask |-> 1, subtasks |-> <<>>, dependencies |-> <<>>])

InitUsers(ms) ==
  [u \in Users |->
     [role |-> RoleOf(u), name |-> u,
      teams |-> IF u \in SeqToSet(ms) THEN <<"t1">> ELSE <<>>,
      projects |-> IF u \in {"u1", "u2"} THEN <<1>> ELSE <<>>,
      notifications |-> <<>>, isVerified |-> TRUE, isActive |-> TRUE]]

InitStore(sq, ms) ==
  /\ users = InitUsers(ms)
  /\ teams = [t \in TeamIds |-> InitTeam(ms)]
  /\ projects = (1 :> InitProject("t1"))
  /\ tasks = InitTasks
  /\ chats = <<>>
  /\ notifications = <<>>
  /\ nextId = [chat |-> 1, notification |-> 1, project |-> 2, task |-> 3, proposal |-> 2]
  /\ sockets = [u \in Users |-> [teams |-> InitUsers(ms)[u].teams,
                                 projects |-> InitUsers(ms)[u].projects]]
  /\ strictQuery = sq
  /\ inflight = <<>>
  /\ clock = 0
  /\ outbox = <<>>
  /\ last = Respond("init", Undefined, 0)

\* the installed Mongoose is not pinned by the repository: either default of strictQuery
\* is possible; u3 is outside the team
Init == \E sq \in BOOLEAN : InitStore(sq, <<"u1", "u2">>)

\* for the specifications whose handlers run no query with an undeclared path
InitNoQuery == InitStore(TRUE, <<"u1", "u2">>)

\* for the fan-out of a team message: a team of two and a team of three
InitTeams == \E ms \in TeamChoices : InitStore(TRUE, ms)

\* ------------------------------------------------------------ chat: send
MessageNotification(recipient, title, content, message, actor) ==
  [recipient |-> recipient, type |-> "message", title |-> title, content |-> content,
   message |-> message, createdBy |-> actor]

\* POST /api/chats/private
sendPrivateMessage(actor, recipient, content, failAt) ==
  /\ UNCHANGED <<teams, projects, tasks, sockets, strictQuery, inflight, clock, outbox>>
  /\ IF recipient = Undefined \/ content = Undefined
     THEN /\ last' = Respond("sendPrivateMessage", actor, 400)
          /\ UNCHANGED <<chats, notifications, users, nextId>>
     ELSE IF recipient \notin DOMAIN users
     THEN /\ last' = Respond("sendPrivateMessage", actor, 404)
          /\ UNCHANGED <<chats, notifications, users, nextId>>
     ELSE LET message == NewChat([sender |-> actor, recipient |-> recipient,
                                  content |-> content, type |-> "text",
                                  isPrivateMessage |-> TRUE])
              objs == <<MessageNotification(recipient, "New Private Message",
                          "You have received a new message from", nextId.chat, actor)>>
          IN /\ chats' = Put(chats, nextId.chat, message)
             /\ FanOut(objs, failAt)
             /\ nextId' = [nextId EXCEPT !.chat = @ + 1,
                                         !.notification = @ + Saved(objs, failAt)]
             /\ last' = IF FanOutError(objs, failAt) = "none"
                        THEN Respond("sendPrivateMessage", actor, 201)
                        ELSE Respond("sendPrivateMessage", actor,
                                     ErrorStatus(FanOutError(objs, failAt)))

\* the members a team message is announced to: every member but the sender, in order
TeamRecipients(team, actor) ==
  SelectSeq([i \in DOMAIN team.members |-> team.members[i].user], LAMBDA m : m # actor)

\* POST /api/chats/team/:teamId
sendTeamMessage(actor, teamId, content, failAt) ==
  /\ UNCHANGED <<teams, projects, tasks, sockets, strictQuery, inflight, clock, outbox>>
  /\ IF content = Undefined
     THEN /\ last' = Respond("sendTeamMessage", actor, 400)
          /\ UNCHANGED <<chats, notifications, users, nextId>>
     ELSE IF teamId \notin DOMAIN teams
     THEN /\ last' = Respond("sendTeamMessage", actor, 404)
          /\ UNCHANGED <<chats, notifications, users, nextId>>
     ELSE IF ~IsMember(teams[teamId], actor)
     THEN /\ last' = Respond("sendTeamMessage", actor, 403)
          /\ UNCHANGED <<chats, notifications, users, nextId>>
     ELSE LET team == teams[teamId]
              message == NewChat([sender |-> actor, team |-> teamId, content |-> content,
                                  type |-> "text", isTeamMessage |-> TRUE])
              rs == TeamRecipients(team, actor)
              objs == [i \in DOMAIN rs |->
                         MessageNotification(rs[i], "New Team Message",
                           "sent a message to the team", nextId.chat, actor)
                         @@ [team |-> teamId]]
          IN /\ chats' = Put(chats, nextId.chat, message)
             /\ FanOut(objs, failAt)
             /\ nextId' = [nextId EXCEPT !.chat = @ + 1,
                                         !.notification = @ + Saved(objs, failAt)]
             /\ last' = IF FanOutError(objs, failAt) = "none"
                        THEN Respond("sendTeamMessage", actor, 201)
                        ELSE Respond("sendTeamMessage", actor,
                                     ErrorStatus(FanOutError(objs, failAt)))

\* notifyUsers: a Set filled with the client, the assigned freelancers and the members
\* of the assigned team, the sender left out; it iterates in insertion order
Dedup(s) ==
  SelectSeq([i \in DOMAIN s |-> IF \E j \in 1..(i - 1) : s[j] = s[i] THEN Undefined ELSE s[i]],
            LAMBDA x : x # Undefined)

ProjectRecipients(project, actor) ==
  LET teamUsers == IF project.assignedTeam # Undefined
                   THEN [i \in DOMAIN teams[project.assignedTeam].members |->
                           teams[project.assignedTeam].members[i].user]
                   ELSE <<>>
      all == <<project.client>> \o project.assignedFreelancers \o teamUsers
  IN Dedup(SelectSeq(all, LAMBDA x : x # actor))

\* POST /api/chats/project/:projectId
sendProjectMessage(actor, projectId, content, failAt) ==
  /\ UNCHANGED <<teams, projects, tasks, sockets, strictQuery, inflight, clock, outbox>>
  /\ IF content = Undefined
     THEN /\ last' = Respond("sendProjectMessage", actor, 400)
          /\ UNCHANGED <<chats, notifications, users, nextId>>
     ELSE IF projectId \notin DOMAIN projects
     THEN /\ last' = Respond("sendProjectMessage", actor, 404)
          /\ UNCHANGED <<chats, notifications, users, nextId>>
     ELSE IF ~IsProjectParticipant(projects[projectId], actor)
     THEN /\ last' = Respond("sendProjectMessage", actor, 403)
          /\ UNCHANGED <<chats, notifications, users, nextId>>
     ELSE LET project == projects[projectId]
              message == NewChat([sender |-> actor, project |-> projectId,
                                  content |-> content, type |-> "text",
                                  isProjectMessage |-> TRUE])
              rs == ProjectRecipients(project, actor)
              objs == [i \in DOMAIN rs |->
                         MessageNotification(rs[i], "New Project Message",
                           "sent a message in the project", nextId.chat, actor)
                         @@ [project |-> projectId]]
          IN /\ chats' = Put(chats, nextId.chat, message)
             /\ FanOut(objs, failAt)
             /\ nextId' = [nextId EXCEPT !.chat = @ + 1,
                                         !.notification = @ + Saved(objs, failAt)]
             /\ last' = IF FanOutError(objs, failAt) = "none"
                        THEN Respond("sendProjectMessage", actor, 201)
                        ELSE Respond("sendProjectMessage", actor,
                                     ErrorStatus(FanOutError(objs, failAt)))

\* socket event private-message
socketPrivateMessage(actor, recipientId, content) ==
  /\ actor \in DOMAIN sockets
  /\ UNCHANGED <<users, teams, projects, tasks, notifications, sockets, strictQuery, inflight, clock, outbox>>
  /\ LET newMessage == NewChat([sender |-> actor, recipient |-> recipientId,
                                content |-> content, type |-> "text"])
     IN IF ValidChat(newMessage)
        THEN /\ chats' = Put(chats, nextId.chat, newMessage)
             /\ nextId' = [nextId EXCEPT !.chat = @ + 1]
             /\ last' = Emit("private-message", actor, "message-sent")
        ELSE /\ last' = Emit("private-message", actor, "error")
             /\ UNCHANGED <<chats, nextId>>

\* socket event team-message
socketTeamMessage(actor, teamId, content) ==
  /\ actor \in DOMAIN sockets
  /\ UNCHANGED <<users, teams, projects, tasks, notifications, sockets, strictQuery, inflight, clock, outbox>>
  /\ IF teamId \notin SeqToSet(sockets[actor].teams)
     THEN /\ last' = Emit("team-message", actor, "error")
          /\ UNCHANGED <<chats, nextId>>
     ELSE LET newMessage == NewChat([sender |-> actor, team |-> teamId,
                                     content |-> content, type |-> "text",
                                     isTeamMessage |-> TRUE])
          IN IF ValidChat(newMessage)
             THEN /\ chats' = Put(chats, nextId.chat, newMessage)
                  /\ nextId' = [nextId EXCEPT !.chat = @ + 1]
                  /\ last' = Emit("team-message", actor, "new-team-message")
             ELSE /\ last' = Emit("team-message", actor, "error")
                  /\ UNCHANGED <<chats, nextId>>

\* socket event project-update: the update is emitted to the project's room, then one
\* Notification is saved; nothing checks the sender against the project
socketProjectUpdate(actor, projectId, content) ==
  /\ actor \in DOMAIN sockets
  /\ UNCHANGED <<users, teams, projects, tasks, chats, sockets, strictQuery, inflight, clock, outbox>>
  /\ LET given == [type |-> "project", title |-> "Project Update", project |-> projectId,
                   createdBy |-> actor]
         notification == NewNotification(IF content = Undefined THEN given
                                         ELSE [content |-> content] @@ given)
     IN IF ValidNotification(notification)
        THEN /\ notifications' = Put(notifications, nextId.notification, notification)
             /\ nextId' = [nextId EXCEPT !.notification = @ + 1]
             /\ last' = Emit("project-update", actor, "project-updated")
        ELSE /\ last' = Emit("project-update", actor, "error")
             /\ UNCHANGED <<notifications, nextId>>

\* ------------------------------------------------------------ chat: read
\* a filter condition  path: true  on the Chat collection.  A path the schema does not
\* declare is stripped from the filter when strictQuery is on; when it is off the store
\* compares it with the stored document, which never holds such a path.
FlagMatches(doc, path) ==
  IF path \in ChatPaths THEN doc[path] = TRUE
  ELSE IF strictQuery THEN TRUE
  ELSE Has(doc, path) /\ doc[path] = TRUE

\* variant: the  'readBy.user': { $ne: user }  condition is left out of the filter
HasRead_Never(doc, u) == FALSE

HasRead(doc, u) == \E i \in DOMAIN doc.readBy : doc.readBy[i].user = u

\* $push: { readBy: { user, readAt } }
PushReadBy(doc, u) == [doc EXCEPT !.readBy = Append(@, [user |-> u])]

\* GET /api/chats/private/:userId
getPrivateMessages(actor, userId) ==
  /\ UNCHANGED <<users, teams, projects, tasks, notifications, nextId, sockets, strictQuery, inflight, clock, outbox>>
  /\ IF userId \notin DOMAIN users
     THEN /\ last' = Respond("getPrivateMessages", actor, 404)
          /\ UNCHANGED chats
     ELSE LET found == {id \in DOMAIN chats :
                          /\ \/ chats[id].sender = actor /\ chats[id].recipient = userId
                             \/ chats[id].sender = userId /\ chats[id].recipient = actor
                          /\ FlagMatches(chats[id], "isPrivateMessage")}
          IN /\ chats' = [id \in DOMAIN chats |->
                            IF /\ chats[id].sender = userId
                               /\ chats[id].recipient = actor
                               /\ chats[id].isRead = FALSE
                            THEN [chats[id] EXCEPT !.isRead = TRUE]
                            ELSE chats[id]]
             /\ last' = RespondMessagesRef("getPrivateMessages", actor, 200, found, <<userId>>)

\* GET /api/chats/team/:teamId
getTeamMessages(actor, teamId) ==
  /\ UNCHANGED <<users, teams, projects, tasks, notifications, nextId, sockets, strictQuery, inflight, clock, outbox>>
  /\ IF teamId \notin DOMAIN teams
     THEN /\ last' = Respond("getTeamMessages", actor, 404)
          /\ UNCHANGED chats
     ELSE IF ~IsMember(teams[teamId], actor)
     THEN /\ last' = RespondRef("getTeamMessages", actor, 403, <<teamId>>)
          /\ UNCHANGED chats
     ELSE LET found == {id \in DOMAIN chats :
                          chats[id].team = teamId /\ chats[id].isTeamMessage = TRUE}
          IN /\ chats' = [id \in DOMAIN chats |->
                            IF /\ chats[id].team = teamId
                               /\ chats[id].sender # actor
                               /\ ~HasRead(chats[id], actor)
                            THEN PushReadBy(chats[id], actor)
                            ELSE chats[id]]
             /\ last' = RespondMessagesRef("getTeamMessages", actor, 200, found, <<teamId>>)

\* GET /api/chats/project/:projectId
getProjectMessages(actor, projectId) ==
  /\ UNCHANGED <<users, teams, projects, tasks, notifications, nextId, sockets, strictQuery, inflight, clock, outbox>>
  /\ IF projectId \notin DOMAIN projects
     THEN /\ last' = Respond("getProjectMessages", actor, 404)
          /\ UNCHANGED chats
     ELSE IF ~IsProjectParticipant(projects[projectId], actor)
     THEN /\ last' = Respond("getProjectMessages", actor, 403)
          /\ UNCHANGED chats
     ELSE LET found == {id \in DOMAIN chats :
                          chats[id].project = projectId /\ chats[id].isProjectMessage = TRUE}
          IN /\ chats' = [id \in DOMAIN chats |->
                            IF /\ chats[id].project = projectId
                               /\ chats[id].sender # actor
                               /\ ~HasRead(chats[id], actor)
                            THEN PushReadBy(chats[id], actor)
                            ELSE chats[id]]
             /\ last' = RespondMessages("getProjectMessages", actor, 200, found)

\* PUT /api/chats/read
markMessagesAsRead(actor, messageIds) ==
  /\ UNCHANGED <<users, teams, projects, tasks, notifications, nextId, sockets, strictQuery, inflight, clock, outbox>>
  /\ IF messageIds = {}
     THEN /\ last' = Respond("markMessagesAsRead", actor, 400)
          /\ UNCHANGED chats
     ELSE LET private(id) == /\ id \in messageIds
                             /\ FlagMatches(chats[id], "isPrivateMessage")
                             /\ chats[id].recipient = actor
                             /\ chats[id].isRead = FALSE
              afterPrivate == [id \in DOMAIN chats |->
                                 IF private(id) THEN [chats[id] EXCEPT !.isRead = TRUE]
                                 ELSE chats[id]]
              group(id) == /\ id \in messageIds
                           /\ \/ afterPrivate[id].isTeamMessage = TRUE
                              \/ afterPrivate[id].isProjectMessage = TRUE
                           /\ afterPrivate[id].sender # actor
                           /\ ~HasRead(afterPrivate[id], actor)
          IN /\ chats' = [id \in DOMAIN chats |->
                            IF group(id) THEN PushReadBy(afterPrivate[id], actor)
                            ELSE afterPrivate[id]]
             /\ last' = RespondRef("markMessagesAsRead", actor, 200, <<messageIds>>)

\* ------------------------------------------------------------ chat: react
\* findIndex over the results of the callback: the first index that holds, 0 when none does
FindIndex(hits) ==
  IF \E i \in DOMAIN hits : hits[i]
  THEN CHOOSE i \in DOMAIN hits : hits[i] /\ \A j \in 1..(i - 1) : ~hits[j]
  ELSE 0

\* splice(i, 1)
Splice(s, i) == [j \in 1..(Len(s) - 1) |-> IF j < i THEN s[j] ELSE s[j + 1]]

\* the authorization that replyToMessage and reactToMessage share
IsAuthorizedFor(message, actor) ==
  IF Has(message, "isPrivateMessage") /\ message.isPrivateMessage = TRUE
  THEN message.sender = actor \/ message.recipient = actor
  ELSE IF message.isTeamMessage
  THEN message.team \in DOMAIN teams /\ IsMember(teams[message.team], actor)
  ELSE IF message.isProjectMessage
  THEN message.project \in DOMAIN projects
       /\ IsProjectParticipant(projects[message.project], actor)
  ELSE FALSE

\* variant: the new reaction is pushed without the removal of the user's earlier one
ToggleReaction_Append(reactions, actor, reaction) ==
  Append(reactions, Cast([user |-> actor, emoji |-> reaction], ReactionPaths))

\* message.reactions after the toggle of reactToMessage
ToggleReaction(reactions, actor, reaction) ==
  LET existingReactionIndex ==
        FindIndex([i \in DOMAIN reactions |->
                     /\ reactions[i].user = actor
                     /\ Has(reactions[i], "emoji") /\ reactions[i].emoji = reaction])
      userReactionIndex == FindIndex([i \in DOMAIN reactions |-> reactions[i].user = actor])
      pushed == Cast([user |-> actor, emoji |-> reaction], ReactionPaths)
  IN IF existingReactionIndex # 0
     THEN Splice(reactions, existingReactionIndex)
     ELSE IF userReactionIndex # 0
     THEN Append(Splice(reactions, userReactionIndex), pushed)
     ELSE Append(reactions, pushed)

\* POST /api/chats/:messageId/react
reactToMessage(actor, messageId, reaction) ==
  /\ UNCHANGED <<users, teams, projects, tasks, notifications, nextId, sockets, strictQuery, inflight, clock, outbox>>
  /\ IF reaction = Undefined
     THEN /\ last' = Respond("reactToMessage", actor, 400)
          /\ UNCHANGED chats
     ELSE IF messageId \notin DOMAIN chats
     THEN /\ last' = RespondRef("reactToMessage", actor, 404, <<messageId>>)
          /\ UNCHANGED chats
     ELSE IF ~IsAuthorizedFor(chats[messageId], actor)
     THEN /\ last' = Respond("reactToMessage", actor, 403)
          /\ UNCHANGED chats
     ELSE /\ chats' = [chats EXCEPT ![messageId].reactions =
                                      ToggleReaction(@, actor, reaction)]
          \* the third entry: whether the user had a reaction on the message already
          /\ last' = RespondMessagesRef("reactToMessage", actor, 200, {messageId},
                        <<messageId, reaction,
                          \E i \in DOMAIN chats[messageId].reactions :
                             chats[messageId].reactions[i].user = actor>>)

\* ---- reactToMessage taken apart: Chat.findById, then the change of message.reactions
\* in application code, then message.save(), other requests running in between
Requests == {"r1", "r2"}

\* the requests in flight but r, those that hold the document doc marked as overtaken:
\* the version of doc has moved since they read it
Outdate(doc, r) ==
  [q \in (DOMAIN inflight) \ {r} |->
     IF inflight[q].doc = doc THEN [inflight[q] EXCEPT !.stale = TRUE] ELSE inflight[q]]

\* one of the two findIndex calls hit, so message.reactions.splice ran
Spliced(reactions, actor) == \E i \in DOMAIN reactions : reactions[i].user = actor

\* variant: every save is refused once the version of the document has moved
VersionError_Always(q) == q.stale

\* message.save() of an array that was spliced writes the whole array and is refused
\* when the version of the stored document has moved; a save that only pushed sends the
\* pushed element alone and is never refused
VersionError(q) == Spliced(q.reactions, q.actor) /\ q.stale

\* the stored reactions after the save of request q
SavedReactions(stored, q) ==
  IF Spliced(q.reactions, q.actor)
  THEN ToggleReaction(q.reactions, q.actor, q.reaction)
  ELSE Append(stored, ToggleReaction(<<>>, q.actor, q.reaction)[1])

\* the request up to and including Chat.findById and the authorization
reactToMessageRead(r, actor, messageId, reaction) ==
  /\ r \notin DOMAIN inflight
  /\ UNCHANGED <<users, teams, projects, tasks, chats, notifications, nextId, sockets,
                 strictQuery, clock, outbox>>
  /\ IF reaction = Undefined
     THEN /\ last' = Respond("reactToMessage", actor, 400)
          /\ UNCHANGED inflight
     ELSE IF messageId \notin DOMAIN chats
     THEN /\ last' = RespondRef("reactToMessage", actor, 404, <<messageId>>)
          /\ UNCHANGED inflight
     ELSE IF ~IsAuthorizedFor(chats[messageId], actor)
     THEN /\ last' = Respond("reactToMessage", actor, 403)
          /\ UNCHANGED inflight
     ELSE /\ inflight' = Put(inflight, r,
                             [op |-> "reactToMessage", actor |-> actor,
                              doc |-> <<"chat", messageId>>, reaction |-> reaction,
                              reactions |-> chats[messageId].reactions, stale |-> FALSE])
          /\ last' = RespondRef("reactToMessage.read", actor, 0, <<messageId>>)

\* the rest of the request: message.save() and the response
reactToMessageSave(r) ==
  /\ r \in DOMAIN inflight
  /\ inflight[r].op = "reactToMessage"
  /\ UNCHANGED <<users, teams, projects, tasks, notifications, nextId, sockets, strictQuery, clock, outbox>>
  /\ LET q == inflight[r]
         messageId == q.doc[2]
         ref == <<messageId, Spliced(q.reactions, q.actor), q.stale>>
     IN IF messageId \notin DOMAIN chats \/ VersionError(q)
        THEN /\ last' = RespondRef("reactToMessage.save", q.actor,
                                   ErrorStatus("VersionError"), ref)
             /\ inflight' = [k \in (DOMAIN inflight) \ {r} |-> inflight[k]]
             /\ UNCHANGED chats
        ELSE /\ chats' = [chats EXCEPT ![messageId].reactions = SavedReactions(@, q)]
             /\ inflight' = Outdate(q.doc, r)
             /\ last' = RespondRef("reactToMessage.save", q.actor, 200, ref)

\* POST /api/chats/:messageId/reply: the reply copies the target of the original
\* message; isPrivateMessage is read off the stored original, where the schema keeps none
replyToMessage(actor, messageId, content, failAt) ==
  /\ UNCHANGED <<teams, projects, tasks, sockets, strictQuery, inflight, clock, outbox>>
  /\ IF content = Undefined
     THEN /\ last' = Respond("replyToMessage", actor, 400)
          /\ UNCHANGED <<chats, notifications, users, nextId>>
     ELSE IF messageId \notin DOMAIN chats
     THEN /\ last' = RespondRef("replyToMessage", actor, 404, <<messageId>>)
          /\ UNCHANGED <<chats, notifications, users, nextId>>
     ELSE IF ~IsAuthorizedFor(chats[messageId], actor)
     THEN /\ last' = RespondRef("replyToMessage", actor, 403, <<messageId>>)
          /\ UNCHANGED <<chats, notifications, users, nextId>>
     ELSE LET originalMessage == chats[messageId]
              given == [sender |-> actor, content |-> content, type |-> "text",
                        replyTo |-> messageId]
              copied ==
                IF Has(originalMessage, "isPrivateMessage")
                   /\ originalMessage.isPrivateMessage = TRUE
                THEN [recipient |-> IF originalMessage.sender = actor
                                    THEN originalMessage.recipient
                                    ELSE originalMessage.sender]
                ELSE IF originalMessage.isTeamMessage
                THEN [isTeamMessage |-> TRUE, team |-> originalMessage.team]
                ELSE [isProjectMessage |-> TRUE, project |-> originalMessage.project]
              replyMessage == NewChat(copied @@ given)
              rs == IF replyMessage.isTeamMessage
                    THEN TeamRecipients(teams[replyMessage.team], actor)
                    ELSE IF replyMessage.isProjectMessage
                    THEN ProjectRecipients(projects[replyMessage.project], actor)
                    ELSE <<replyMessage.recipient>>
              objs == [i \in DOMAIN rs |->
                         MessageNotification(rs[i], "New Reply", "replied to a message",
                                             nextId.chat, actor)
                         @@ (IF replyMessage.isTeamMessage
                             THEN [team |-> replyMessage.team]
                             ELSE IF replyMessage.isProjectMessage
                             THEN [project |-> replyMessage.project]
                             ELSE [message |-> nextId.chat])]
          IN /\ chats' = Put(chats, nextId.chat, replyMessage)
             /\ FanOut(objs, failAt)
             /\ nextId' = [nextId EXCEPT !.chat = @ + 1,
                                         !.notification = @ + Saved(objs, failAt)]
             /\ last' = IF FanOutError(objs, failAt) = "none"
                        THEN RespondRef("replyToMessage", actor, 201, <<messageId>>)
                        ELSE RespondRef("replyToMessage", actor,
                                        ErrorStatus(FanOutError(objs, failAt)), <<messageId>>)

\* variant: every user passes for the sender
IsSender_Any(message, actor) == TRUE

\* message.sender.toString() === req.user.id
IsSender(message, actor) == message.sender = actor

\* DELETE /api/chats/:messageId; message.remove() deletes the document
deleteMessage(actor, messageId) ==
  /\ UNCHANGED <<users, teams, projects, tasks, notifications, nextId, sockets, strictQuery, inflight, clock, outbox>>
  /\ IF messageId \notin DOMAIN chats
     THEN /\ last' = RespondRef("deleteMessage", actor, 404, <<messageId>>)
          /\ UNCHANGED chats
     ELSE IF ~IsSender(chats[messageId], actor)
     THEN /\ last' = RespondRef("deleteMessage", actor, 403, <<messageId>>)
          /\ UNCHANGED chats
     ELSE /\ chats' = [k \in (DOMAIN chats) \ {messageId} |-> chats[k]]
          /\ last' = RespondRef("deleteMessage", actor, 200, <<messageId>>)

\* ------------------------------------------------------------ projects
\* authorize(...roles): the route's role check, ahead of the controller
Authorized(actor, roles) == users[actor].role \in roles

\* POST /api/projects
createProject(actor) ==
  /\ UNCHANGED <<teams, tasks, chats, notifications, sockets, strictQuery, inflight, clock, outbox>>
  /\ IF ~Authorized(actor, {"client"})
     THEN /\ last' = Respond("createProject", actor, 403)
          /\ UNCHANGED <<projects, users, nextId>>
     ELSE /\ projects' = Put(projects, nextId.project,
                             [client |-> actor, title |-> "project", status |-> "open",
                              proposals |-> <<>>, assignedFreelancers |-> <<>>,
                              assignedTeam |-> Undefined, tasks |-> <<>>])
          /\ users' = [users EXCEPT ![actor].projects = Append(@, nextId.project)]
          /\ nextId' = [nextId EXCEPT !.project = @ + 1]
          /\ last' = RespondRef("createProject", actor, 201, <<nextId.project>>)

\* POST /api/projects/:id/proposals
submitProposal(actor, id, failAt) ==
  /\ UNCHANGED <<teams, tasks, chats, sockets, strictQuery, inflight, clock, outbox>>
  /\ IF ~Authorized(actor, {"student"})
     THEN /\ last' = Respond("submitProposal", actor, 403)
          /\ UNCHANGED <<projects, users, notifications, nextId>>
     ELSE IF id \notin DOMAIN projects
     THEN /\ last' = Respond("submitProposal", actor, 404)
          /\ UNCHANGED <<projects, users, notifications, nextId>>
     ELSE IF projects[id].status # "open"
     THEN /\ last' = RespondRef("submitProposal", actor, 400, <<id>>)
          /\ UNCHANGED <<projects, users, notifications, nextId>>
     ELSE IF \E i \in DOMAIN projects[id].proposals : projects[id].proposals[i].freelancer = actor
     THEN /\ last' = RespondRef("submitProposal", actor, 400, <<id>>)
          /\ UNCHANGED <<projects, users, notifications, nextId>>
     ELSE LET proposal == [_id |-> nextId.proposal, freelancer |-> actor, status |-> "pending"]
              objs == <<[recipient |-> projects[id].client, type |-> "proposal",
                         title |-> "New Proposal Received",
                         content |-> "You have received a new proposal for your project",
                         project |-> id, createdBy |-> actor]>>
          IN /\ projects' = [projects EXCEPT ![id].proposals = Append(@, proposal)]
             /\ FanOut(objs, failAt)
             /\ nextId' = [nextId EXCEPT !.proposal = @ + 1,
                                         !.notification = @ + Saved(objs, failAt)]
             /\ last' = IF FanOutError(objs, failAt) = "none"
                        THEN RespondRef("submitProposal", actor, 201, <<id, nextId.proposal>>)
                        ELSE RespondRef("submitProposal", actor,
                                        ErrorStatus(FanOutError(objs, failAt)), <<id>>)

\* ---- submitProposal taken apart: Project.findById and the checks, then the push of the
\* proposal and project.save(), other requests running in between.  The save of a pushed
\* element sends the element alone and is not refused when the document has moved.
submitProposalRead(r, actor, id) ==
  /\ r \notin DOMAIN inflight
  /\ UNCHANGED <<users, teams, projects, tasks, chats, notifications, nextId, sockets,
                 strictQuery, clock, outbox>>
  /\ IF ~Authorized(actor, {"student"})
     THEN /\ last' = Respond("submitProposal", actor, 403)
          /\ UNCHANGED inflight
     ELSE IF id \notin DOMAIN projects
     THEN /\ last' = Respond("submitProposal", actor, 404)
          /\ UNCHANGED inflight
     ELSE IF projects[id].status # "open"
     THEN /\ last' = RespondRef("submitProposal", actor, 400, <<id>>)
          /\ UNCHANGED inflight
     ELSE IF \E i \in DOMAIN projects[id].proposals : projects[id].proposals[i].freelancer = actor
     THEN /\ last' = RespondRef("submitProposal", actor, 400, <<id>>)
          /\ UNCHANGED inflight
     ELSE /\ inflight' = Put(inflight, r, [op |-> "submitProposal", actor |-> actor,
                                           doc |-> <<"project", id>>, stale |-> FALSE])
          /\ last' = RespondRef("submitProposal.read", actor, 0, <<id>>)

submitProposalSave(r, failAt) ==
  /\ r \in DOMAIN inflight
  /\ inflight[r].op = "submitProposal"
  /\ UNCHANGED <<teams, tasks, chats, sockets, strictQuery, clock, outbox>>
  /\ LET actor == inflight[r].actor
         id == inflight[r].doc[2]
         proposal == [_id |-> nextId.proposal, freelancer |-> actor, status |-> "pending"]
         objs == <<[recipient |-> projects[id].client, type |-> "proposal",
                    title |-> "New Proposal Received",
                    content |-> "You have received a new proposal for your project",
                    project |-> id, createdBy |-> actor]>>
     IN /\ projects' = [projects EXCEPT ![id].proposals = Append(@, proposal)]
        /\ inflight' = Outdate(inflight[r].doc, r)
        /\ FanOut(objs, failAt)
        /\ nextId' = [nextId EXCEPT !.proposal = @ + 1,
                                    !.notification = @ + Saved(objs, failAt)]
        /\ last' = IF FanOutError(objs, failAt) = "none"
                   THEN RespondRef("submitProposal.save", actor, 201, <<id, nextId.proposal>>)
                   ELSE RespondRef("submitProposal.save", actor,
                                   ErrorStatus(FanOutError(objs, failAt)), <<id>>)

ProposalNotification(freelancer, status, id, actor) ==
  [recipient |-> freelancer, type |-> "proposal",
   title |-> IF status = "accepted" THEN "Proposal Accepted" ELSE "Proposal Rejected",
   content |-> IF status = "accepted"
               THEN "Your proposal for the project has been accepted!"
               ELSE "Your proposal for the project has been rejected.",
   project |-> id, createdBy |-> actor]

\* variant: only the proposal is marked, the project is left as it was
WithProposalStatus_ProposalOnly(project, proposalIndex, status) ==
  [project EXCEPT !.proposals[proposalIndex].status = status]

\* the project document as updateProposalStatus changes it before project.save()
WithProposalStatus(project, proposalIndex, status) ==
  LET marked == [project EXCEPT !.proposals[proposalIndex].status = status]
  IN IF status = "accepted"
     THEN [marked EXCEPT !.status = "in_progress",
                         !.assignedFreelancers =
                            Append(@, project.proposals[proposalIndex].freelancer)]
     ELSE marked

\* PUT /api/projects/:id/proposals/:proposalId
updateProposalStatus(actor, id, proposalId, status, failAt) ==
  /\ UNCHANGED <<teams, tasks, chats, sockets, strictQuery, inflight, clock, outbox>>
  /\ IF status \notin {"accepted", "rejected"}
     THEN /\ last' = Respond("updateProposalStatus", actor, 400)
          /\ UNCHANGED <<projects, users, notifications, nextId>>
     ELSE IF id \notin DOMAIN projects
     THEN /\ last' = Respond("updateProposalStatus", actor, 404)
          /\ UNCHANGED <<projects, users, notifications, nextId>>
     ELSE IF projects[id].client # actor
     THEN /\ last' = RespondRef("updateProposalStatus", actor, 403, <<id>>)
          /\ UNCHANGED <<projects, users, notifications, nextId>>
     ELSE LET project == projects[id]
              proposalIndex == FindIndex([i \in DOMAIN project.proposals |->
                                            project.proposals[i]._id = proposalId])
          IN IF proposalIndex = 0
             THEN /\ last' = RespondRef("updateProposalStatus", actor, 404, <<id>>)
                  /\ UNCHANGED <<projects, users, notifications, nextId>>
             ELSE LET freelancerId == project.proposals[proposalIndex].freelancer
                      objs == <<ProposalNotification(freelancerId, status, id, actor)>>
                      \* accepted: the project is pushed onto the freelancer's projects first
                      pushed == IF status = "accepted"
                                THEN [FanOutUsers(objs, failAt) EXCEPT
                                        ![freelancerId].projects = Append(@, id)]
                                ELSE FanOutUsers(objs, failAt)
                  IN /\ notifications' = FanOutNotifications(objs, failAt)
                     /\ users' = pushed
                     /\ nextId' = [nextId EXCEPT !.notification = @ + Saved(objs, failAt)]
                     /\ IF FanOutError(objs, failAt) = "none"
                        THEN /\ projects' = [projects EXCEPT
                                               ![id] = WithProposalStatus(project, proposalIndex, status)]
                             /\ last' = RespondRef("updateProposalStatus", actor, 200,
                                                   <<id, proposalId, status>>)
                        ELSE /\ UNCHANGED projects
                             /\ last' = RespondRef("updateProposalStatus", actor,
                                           ErrorStatus(FanOutError(objs, failAt)),
                                           <<id, proposalId, status>>)

ProjectStatuses == {"draft", "open", "in_progress", "review", "completed", "cancelled"}

\* PUT /api/projects/:id with status in the body: $set of the body under runValidators
updateProject(actor, id, status) ==
  /\ UNCHANGED <<users, teams, tasks, chats, notifications, nextId, sockets, strictQuery,
                 inflight, clock, outbox>>
  /\ IF id \notin DOMAIN projects
     THEN /\ last' = RespondRef("updateProject", actor, 404, <<id>>)
          /\ UNCHANGED projects
     ELSE IF projects[id].client # actor
     THEN /\ last' = RespondRef("updateProject", actor, 403, <<id>>)
          /\ UNCHANGED projects
     ELSE IF projects[id].status \in {"in_progress", "completed", "cancelled"}
     THEN /\ last' = RespondRef("updateProject", actor, 400, <<id>>)
          /\ UNCHANGED projects
     ELSE IF status \notin ProjectStatuses
     THEN /\ last' = RespondRef("updateProject", actor, ErrorStatus("ValidationError"), <<id>>)
          /\ UNCHANGED projects
     ELSE /\ projects' = [projects EXCEPT ![id].status = status]
          /\ last' = RespondRef("updateProject", actor, 200, <<id>>)

\* POST /api/projects/:id/complete; project.save() comes before the notifications of the
\* assigned freelancers (their completedProjects and points are not part of the model)
completeProject(actor, id, failAt) ==
  /\ UNCHANGED <<teams, tasks, chats, sockets, strictQuery, inflight, clock, outbox>>
  /\ IF id \notin DOMAIN projects
     THEN /\ last' = RespondRef("completeProject", actor, 404, <<id>>)
          /\ UNCHANGED <<projects, users, notifications, nextId>>
     ELSE IF projects[id].client # actor
     THEN /\ last' = RespondRef("completeProject", actor, 403, <<id>>)
          /\ UNCHANGED <<projects, users, notifications, nextId>>
     ELSE IF projects[id].status # "in_progress"
     THEN /\ last' = RespondRef("completeProject", actor, 400, <<id>>)
          /\ UNCHANGED <<projects, users, notifications, nextId>>
     ELSE LET rs == projects[id].assignedFreelancers
              objs == [i \in DOMAIN rs |->
                         [recipient |-> rs[i], type |-> "project",
                          title |-> "Project Completed",
                          content |-> "The project has been marked as completed",
                          project |-> id, createdBy |-> actor]]
          IN /\ projects' = [projects EXCEPT ![id].status = "completed"]
             /\ FanOut(objs, failAt)
             /\ nextId' = [nextId EXCEPT !.notification = @ + Saved(objs, failAt)]
             /\ last' = IF FanOutError(objs, failAt) = "none"
                        THEN RespondRef("completeProject", actor, 200, <<id>>)
                        ELSE RespondRef("completeProject", actor,
                                        ErrorStatus(FanOutError(objs, failAt)), <<id>>)

\* ------------------------------------------------------------ tasks
\* task.project after populate('project')
IsProjectClient(task, u) == projects[task.project].client = u

IsAssignedFreelancer(task, u) ==
  \E i \in DOMAIN projects[task.project].assignedFreelancers :
     projects[task.project].assignedFreelancers[i] = u

\* req.params.taskId: the route mounts the handlers as /:id/..., so a handler that
\* reads taskId off req.params gets undefined, and Task.findById(undefined) finds nothing
ParamTaskId(params) == IF Has(params, "taskId") THEN params.taskId ELSE NoId

\* POST /api/tasks/:id/assign
assignTask(actor, params, userId, failAt) ==
  LET taskId == ParamTaskId(params) IN
  /\ UNCHANGED <<teams, projects, chats, sockets, strictQuery, inflight, clock, outbox>>
  /\ IF taskId \notin DOMAIN tasks
     THEN /\ last' = RespondRef("assignTask", actor, 404, <<params, userId>>)
          /\ UNCHANGED <<tasks, users, notifications, nextId>>
     ELSE IF ~IsProjectClient(tasks[taskId], actor) /\ ~IsAssignedFreelancer(tasks[taskId], actor)
     THEN /\ last' = RespondRef("assignTask", actor, 403, <<params, userId>>)
          /\ UNCHANGED <<tasks, users, notifications, nextId>>
     ELSE IF userId \notin DOMAIN users
     THEN /\ last' = RespondRef("assignTask", actor, 404, <<params, userId>>)
          /\ UNCHANGED <<tasks, users, notifications, nextId>>
     ELSE IF ~(IsAssignedFreelancer(tasks[taskId], userId) \/ IsProjectClient(tasks[taskId], userId))
     THEN /\ last' = RespondRef("assignTask", actor, 400, <<params, userId>>)
          /\ UNCHANGED <<tasks, users, notifications, nextId>>
     ELSE IF userId \in SeqToSet(tasks[taskId].assignedTo)
     THEN /\ last' = RespondRef("assignTask", actor, 400, <<params, userId>>)
          /\ UNCHANGED <<tasks, users, notifications, nextId>>
     ELSE LET objs == <<[recipient |-> userId, type |-> "task_assignment",
                         title |-> "Task Assignment",
                         content |-> "You have been assigned to task",
                         project |-> tasks[taskId].project, task |-> taskId,
                         createdBy |-> actor]>>
          IN /\ tasks' = [tasks EXCEPT ![taskId].assignedTo = Append(@, userId)]
             /\ FanOut(objs, failAt)
             /\ nextId' = [nextId EXCEPT !.notification = @ + Saved(objs, failAt)]
             /\ last' = IF FanOutError(objs, failAt) = "none"
                        THEN RespondRef("assignTask", actor, 200, <<params, userId>>)
                        ELSE RespondRef("assignTask", actor,
                                        ErrorStatus(FanOutError(objs, failAt)), <<params, userId>>)

\* the store after the cascade of deleteTask: the task off its project's tasks and off its
\* parent's subtasks, the tasks listed in its subtasks deleted, the task deleted
ProjectsWithoutTask(id) ==
  [projects EXCEPT ![tasks[id].project].tasks = Remove(@, id)]

TasksWithoutTask(id) ==
  LET task == tasks[id]
      unlinked == [k \in DOMAIN tasks |->
                     IF k = task.parentTask
                     THEN [tasks[k] EXCEPT !.subtasks = Remove(@, id)]
                     ELSE tasks[k]]
      gone == SeqToSet(task.subtasks) \cup {id}
  IN [k \in (DOMAIN tasks) \ gone |-> unlinked[k]]

\* variant: reading task.creator never fails
CreatorError_Never(task) == FALSE

\* task.creator.toString() on a document of a schema that has no path creator
CreatorError(task) == ~Has(task, "creator")

\* DELETE /api/tasks/:id
deleteTask(actor, id) ==
  /\ UNCHANGED <<users, teams, chats, notifications, nextId, sockets, strictQuery, inflight, clock, outbox>>
  /\ IF id \notin DOMAIN tasks
     THEN /\ last' = Respond("deleteTask", actor, 404)
          /\ UNCHANGED <<tasks, projects>>
     ELSE IF CreatorError(tasks[id])
     THEN \* task.creator is undefined: task.creator.toString() throws a TypeError
          /\ last' = RespondRef("deleteTask", actor, ErrorStatus("TypeError"), <<id>>)
          /\ UNCHANGED <<tasks, projects>>
     ELSE IF /\ ~IsProjectClient(tasks[id], actor)
             /\ ~(Has(tasks[id], "creator") /\ tasks[id].creator = actor)
     THEN /\ last' = RespondRef("deleteTask", actor, 403, <<id>>)
          /\ UNCHANGED <<tasks, projects>>
     ELSE /\ projects' = ProjectsWithoutTask(id)
          /\ tasks' = TasksWithoutTask(id)
          /\ last' = RespondRef("deleteTask", actor, 200, <<id>>)

TaskPaths ==
  {"title", "project", "status", "assignedTo", "createdBy", "isSubtask", "parentTask",
   "subtasks", "dependencies"}

TaskStatuses == {"not_started", "in_progress", "in_review", "done"}

TaskDefaults ==
  [status |-> "not_started", assignedTo |-> <<>>, isSubtask |-> FALSE, parentTask |-> NoId,
   subtasks |-> <<>>, dependencies |-> <<>>]

NewTask(obj) == Cast(obj, TaskPaths) @@ TaskDefaults

ValidTask(doc) ==
  /\ Has(doc, "title")
  /\ Has(doc, "project")
  /\ Has(doc, "createdBy")
  /\ doc.status \in TaskStatuses

IsFreelancerOf(project, u) ==
  \E i \in DOMAIN project.assignedFreelancers : project.assignedFreelancers[i] = u

\* POST /api/tasks with no assignee; the handler names the author of the task creator
createTask(actor, project, status, dependencies, parentTask) ==
  /\ UNCHANGED <<users, teams, chats, notifications, sockets, strictQuery, inflight, clock, outbox>>
  /\ IF project \notin DOMAIN projects
     THEN /\ last' = Respond("createTask", actor, 404)
          /\ UNCHANGED <<tasks, projects, nextId>>
     ELSE IF projects[project].client # actor /\ ~IsFreelancerOf(projects[project], actor)
     THEN /\ last' = Respond("createTask", actor, 403)
          /\ UNCHANGED <<tasks, projects, nextId>>
     ELSE IF parentTask # NoId /\ parentTask \notin DOMAIN tasks
     THEN /\ last' = Respond("createTask", actor, 404)
          /\ UNCHANGED <<tasks, projects, nextId>>
     ELSE LET task == NewTask([title |-> "task", project |-> project, status |-> status,
                               assignedTo |-> <<>>, creator |-> actor,
                               dependencies |-> dependencies, parentTask |-> parentTask])
          IN IF ~ValidTask(task)
             THEN /\ last' = RespondRef("createTask", actor, ErrorStatus("ValidationError"),
                                        <<project>>)
                  /\ UNCHANGED <<tasks, projects, nextId>>
             ELSE /\ tasks' =
                       LET stored == Put(tasks, nextId.task, task)
                       IN IF parentTask # NoId
                          THEN [stored EXCEPT ![parentTask].subtasks = Append(@, nextId.task)]
                          ELSE stored
                  /\ projects' = [projects EXCEPT ![project].tasks = Append(@, nextId.task)]
                  /\ nextId' = [nextId EXCEPT !.task = @ + 1]
                  /\ last' = RespondRef("createTask", actor, 201, <<project>>)

\* POST /api/tasks/:id/subtasks with no assignee
createSubtask(actor, params, status) ==
  /\ UNCHANGED <<users, teams, projects, chats, notifications, sockets, strictQuery, inflight, clock, outbox>>
  /\ LET taskId == ParamTaskId(params)
     IN IF taskId \notin DOMAIN tasks
        THEN /\ last' = RespondRef("createSubtask", actor, 404, <<params>>)
             /\ UNCHANGED <<tasks, nextId>>
        ELSE IF ~IsProjectClient(tasks[taskId], actor) /\ ~IsAssignedFreelancer(tasks[taskId], actor)
        THEN /\ last' = RespondRef("createSubtask", actor, 403, <<params>>)
             /\ UNCHANGED <<tasks, nextId>>
        ELSE LET subtask == NewTask([title |-> "task", project |-> tasks[taskId].project,
                                     status |-> status, assignedTo |-> <<>>,
                                     creator |-> actor, parentTask |-> taskId])
             IN IF ~ValidTask(subtask)
                THEN /\ last' = RespondRef("createSubtask", actor,
                                           ErrorStatus("ValidationError"), <<params>>)
                     /\ UNCHANGED <<tasks, nextId>>
                ELSE /\ tasks' = [Put(tasks, nextId.task, subtask)
                                    EXCEPT ![taskId].subtasks = Append(@, nextId.task)]
                     /\ nextId' = [nextId EXCEPT !.task = @ + 1]
                     /\ last' = RespondRef("createSubtask", actor, 201, <<params>>)

\* PUT /api/tasks/:id with dependencies in the body and no status: $set of the body
updateTask(actor, id, dependencies) ==
  /\ UNCHANGED <<users, teams, projects, chats, notifications, nextId, sockets, strictQuery,
                 inflight, clock, outbox>>
  /\ IF id \notin DOMAIN tasks
     THEN /\ last' = RespondRef("updateTask", actor, 404, <<id>>)
          /\ UNCHANGED tasks
     ELSE IF ~Has(tasks[id], "creator")
     THEN \* task.creator is undefined: task.creator.toString() throws a TypeError
          /\ last' = RespondRef("updateTask", actor, ErrorStatus("TypeError"), <<id>>)
          /\ UNCHANGED tasks
     ELSE IF /\ ~IsProjectClient(tasks[id], actor) /\ ~IsAssignedFreelancer(tasks[id], actor)
             /\ tasks[id].creator # actor /\ actor \notin SeqToSet(tasks[id].assignedTo)
     THEN /\ last' = RespondRef("updateTask", actor, 403, <<id>>)
          /\ UNCHANGED tasks
     ELSE /\ tasks' = [tasks EXCEPT ![id].dependencies = dependencies]
          /\ last' = RespondRef("updateTask", actor, 200, <<id>>)

\* checkCircularDependency(currentTaskId, targetTaskId): targetTaskId is reached from
\* currentTaskId along the dependencies; fuel bounds the depth by the number of tasks
RECURSIVE DependsOn(_, _, _)
DependsOn(currentTaskId, targetTaskId, fuel) ==
  \/ currentTaskId = targetTaskId
  \/ /\ fuel > 0
     /\ currentTaskId \in DOMAIN tasks
     /\ \E i \in DOMAIN tasks[currentTaskId].dependencies :
          DependsOn(tasks[currentTaskId].dependencies[i], targetTaskId, fuel - 1)

\* POST /api/tasks/:id/dependencies
addDependency(actor, params, dependencyId) ==
  LET taskId == ParamTaskId(params) IN
  /\ UNCHANGED <<users, teams, projects, chats, notifications, nextId, sockets, strictQuery,
                 inflight, clock, outbox>>
  /\ IF taskId \notin DOMAIN tasks \/ dependencyId \notin DOMAIN tasks
     THEN /\ last' = RespondRef("addDependency", actor, 404, <<params, dependencyId>>)
          /\ UNCHANGED tasks
     ELSE IF ~IsProjectClient(tasks[taskId], actor) /\ ~IsAssignedFreelancer(tasks[taskId], actor)
     THEN /\ last' = RespondRef("addDependency", actor, 403, <<params, dependencyId>>)
          /\ UNCHANGED tasks
     ELSE IF tasks[taskId].project # tasks[dependencyId].project
     THEN /\ last' = RespondRef("addDependency", actor, 400, <<params, dependencyId>>)
          /\ UNCHANGED tasks
     ELSE IF dependencyId \in SeqToSet(tasks[taskId].dependencies)
     THEN /\ last' = RespondRef("addDependency", actor, 400, <<params, dependencyId>>)
          /\ UNCHANGED tasks
     ELSE IF DependsOn(dependencyId, taskId, Cardinality(DOMAIN tasks))
     THEN /\ last' = RespondRef("addDependency", actor, 400, <<params, dependencyId>>)
          /\ UNCHANGED tasks
     ELSE /\ tasks' = [tasks EXCEPT ![taskId].dependencies = Append(@, dependencyId)]
          /\ last' = RespondRef("addDependency", actor, 200, <<params, dependencyId>>)

\* DELETE /api/tasks/:id/dependencies/:dependencyId
removeDependency(actor, params) ==
  LET taskId == ParamTaskId(params) IN
  /\ UNCHANGED <<users, teams, projects, chats, notifications, nextId, sockets, strictQuery,
                 inflight, clock, outbox>>
  /\ IF taskId \notin DOMAIN tasks
     THEN /\ last' = RespondRef("removeDependency", actor, 404, <<params>>)
          /\ UNCHANGED tasks
     ELSE IF ~IsProjectClient(tasks[taskId], actor) /\ ~IsAssignedFreelancer(tasks[taskId], actor)
     THEN /\ last' = RespondRef("removeDependency", actor, 403, <<params>>)
          /\ UNCHANGED tasks
     ELSE IF params.dependencyId \notin SeqToSet(tasks[taskId].dependencies)
     THEN /\ last' = RespondRef("removeDependency", actor, 404, <<params>>)
          /\ UNCHANGED tasks
     ELSE /\ tasks' = [tasks EXCEPT ![taskId].dependencies = Remove(@, params.dependencyId)]
          /\ last' = RespondRef("removeDependency", actor, 200, <<params>>)

\* ------------------------------------------------------------ teams
\* DELETE /api/teams/:id
deleteTeam(actor, id) ==
  /\ UNCHANGED <<tasks, chats, notifications, nextId, sockets, strictQuery, inflight, clock, outbox>>
  /\ IF id \notin DOMAIN teams
     THEN /\ last' = Respond("deleteTeam", actor, 404)
          /\ UNCHANGED <<teams, users, projects>>
     ELSE IF teams[id].creator # actor
     THEN /\ last' = RespondRef("deleteTeam", actor, 403, <<id>>)
          /\ UNCHANGED <<teams, users, projects>>
     ELSE /\ users' = [u \in DOMAIN users |->
                         IF IsMember(teams[id], u)
                         THEN [users[u] EXCEPT !.teams = Remove(@, id)]
                         ELSE users[u]]
          /\ projects' = [p \in DOMAIN projects |->
                            IF projects[p].assignedTeam = id
                            THEN [projects[p] EXCEPT !.assignedTeam = Undefined]
                            ELSE projects[p]]
          /\ teams' = [t \in (DOMAIN teams) \ {id} |-> teams[t]]
          /\ last' = RespondRef("deleteTeam", actor, 200, <<id>>)

\* ---- membership of a team
TeamPaths == {"name", "creator", "members", "projects", "invitations"}

\* the enum of members.role
TeamRoles == {"leader", "developer", "designer", "tester", "writer", "marketer", "member"}

ValidMembers(members) == \A i \in DOMAIN members : members[i].role \in TeamRoles

ValidTeam(team) ==
  /\ Has(team, "name")
  /\ Has(team, "creator")
  /\ ValidMembers(team.members)

Invitations(team) == IF Has(team, "invitations") THEN team.invitations ELSE <<>>

\* members.findIndex(member => member.user.toString() === u); 0 for the -1 of the code
MemberIndex(team, u) ==
  IF IsMember(team, u)
  THEN CHOOSE i \in DOMAIN team.members :
         /\ team.members[i].user = u
         /\ \A j \in DOMAIN team.members : team.members[j].user = u => i <= j
  ELSE 0

\* members.splice(index, 1)
SpliceMember(members, index) ==
  [i \in 1..(Len(members) - 1) |-> IF i < index THEN members[i] ELSE members[i + 1]]

\* the test memberInfo && memberInfo.role === 'admin'
IsTeamAdmin(team, u) == IsMember(team, u) /\ team.members[MemberIndex(team, u)].role = "admin"

\* POST /api/teams: the creator is entered with the role 'admin'
createTeam(actor) ==
  /\ UNCHANGED <<projects, tasks, chats, notifications, nextId, sockets, strictQuery, inflight, clock, outbox>>
  /\ LET team == [name |-> "team", creator |-> actor,
                  members |-> <<[user |-> actor, role |-> "admin"]>>]
     IN IF ~ValidTeam(team) \/ "t2" \in DOMAIN teams
        THEN /\ last' = Respond("createTeam", actor, ErrorStatus("ValidationError"))
             /\ UNCHANGED <<teams, users>>
        ELSE /\ teams' = Put(teams, "t2", team)
             /\ users' = [users EXCEPT ![actor].teams = Append(@, "t2")]
             /\ last' = RespondRef("createTeam", actor, 201, <<"t2">>)

\* PUT /api/teams/:id, the body written with $set and runValidators
updateTeam(actor, id, body) ==
  /\ UNCHANGED <<users, projects, tasks, chats, notifications, nextId, sockets, strictQuery,
                 inflight, clock, outbox>>
  /\ IF id \notin DOMAIN teams
     THEN /\ last' = Respond("updateTeam", actor, 404)
          /\ UNCHANGED teams
     ELSE IF ~IsTeamAdmin(teams[id], actor)
     THEN /\ last' = RespondRef("updateTeam", actor, 403, <<id, body>>)
          /\ UNCHANGED teams
     ELSE IF Has(body, "members") /\ ~ValidMembers(body.members)
     THEN /\ last' = RespondRef("updateTeam", actor, ErrorStatus("ValidationError"),
                                <<id, body>>)
          /\ UNCHANGED teams
     ELSE /\ teams' = [teams EXCEPT ![id] = Cast(body, TeamPaths) @@ @]
          /\ last' = RespondRef("updateTeam", actor, 200, <<id, body>>)

\* POST /api/teams/:id/invitations/accept: the invitations of the schema carry no user,
\* so invitation.user.toString() throws on the first invitation looked at
acceptInvitation(actor, id) ==
  /\ UNCHANGED <<users, teams, projects, tasks, chats, notifications, nextId, sockets,
                 strictQuery, inflight, clock, outbox>>
  /\ last' = IF id \notin DOMAIN teams
             THEN Respond("acceptInvitation", actor, 404)
             ELSE IF Invitations(teams[id]) # <<>>
             THEN RespondRef("acceptInvitation", actor, ErrorStatus("TypeError"), <<id>>)
             ELSE RespondRef("acceptInvitation", actor, 400, <<id>>)

\* DELETE /api/teams/:id/members/:userId
removeMember(actor, id, userId, failAt) ==
  /\ UNCHANGED <<projects, tasks, chats, sockets, strictQuery, inflight, clock, outbox>>
  /\ IF id \notin DOMAIN teams
     THEN /\ last' = Respond("removeMember", actor, 404)
          /\ UNCHANGED <<teams, users, notifications, nextId>>
     ELSE IF ~IsTeamAdmin(teams[id], actor)
     THEN /\ last' = RespondRef("removeMember", actor, 403, <<id, userId>>)
          /\ UNCHANGED <<teams, users, notifications, nextId>>
     ELSE IF MemberIndex(teams[id], userId) = 0
     THEN /\ last' = RespondRef("removeMember", actor, 404, <<id, userId>>)
          /\ UNCHANGED <<teams, users, notifications, nextId>>
     ELSE IF teams[id].creator = userId
     THEN /\ last' = RespondRef("removeMember", actor, 400, <<id, userId>>)
          /\ UNCHANGED <<teams, users, notifications, nextId>>
     ELSE LET objs == <<[recipient |-> userId, type |-> "team",
                         title |-> "Removed from Team",
                         content |-> "You have been removed from the team",
                         createdBy |-> actor]>>
          IN /\ teams' = [teams EXCEPT ![id].members =
                             SpliceMember(@, MemberIndex(teams[id], userId))]
             /\ notifications' = FanOutNotifications(objs, failAt)
             /\ users' = [u \in DOMAIN users |->
                            IF u = userId
                            THEN [FanOutUsers(objs, failAt)[u] EXCEPT !.teams = Remove(@, id)]
                            ELSE FanOutUsers(objs, failAt)[u]]
             /\ nextId' = [nextId EXCEPT !.notification = @ + Saved(objs, failAt)]
             /\ last' = IF FanOutError(objs, failAt) = "none"
                        THEN RespondRef("removeMember", actor, 200, <<id, userId>>)
                        ELSE RespondRef("removeMember", actor,
                                        ErrorStatus(FanOutError(objs, failAt)), <<id, userId>>)

\* the handler leaveTeam, as called with req.user
leaveTeam(actor, id, failAt) ==
  /\ UNCHANGED <<projects, tasks, chats, sockets, strictQuery, inflight, clock, outbox>>
  /\ IF id \notin DOMAIN teams
     THEN /\ last' = Respond("leaveTeam", actor, 404)
          /\ UNCHANGED <<teams, users, notifications, nextId>>
     ELSE IF MemberIndex(teams[id], actor) = 0
     THEN /\ last' = RespondRef("leaveTeam", actor, 400, <<id>>)
          /\ UNCHANGED <<teams, users, notifications, nextId>>
     ELSE IF teams[id].creator = actor
     THEN /\ last' = RespondRef("leaveTeam", actor, 400, <<id>>)
          /\ UNCHANGED <<teams, users, notifications, nextId>>
     ELSE LET members == SpliceMember(teams[id].members, MemberIndex(teams[id], actor))
              admins == SelectSeq(members, LAMBDA m : m.role = "admin")
              objs == [i \in DOMAIN admins |->
                         [recipient |-> admins[i].user, type |-> "team",
                          title |-> "Member Left Team",
                          content |-> "A member has left the team",
                          team |-> id, createdBy |-> actor]]
          IN /\ teams' = [teams EXCEPT ![id].members = members]
             /\ notifications' = FanOutNotifications(objs, failAt)
             /\ users' = [u \in DOMAIN users |->
                            IF u = actor
                            THEN [FanOutUsers(objs, failAt)[u] EXCEPT !.teams = Remove(@, id)]
                            ELSE FanOutUsers(objs, failAt)[u]]
             /\ nextId' = [nextId EXCEPT !.notification = @ + Saved(objs, failAt)]
             /\ last' = IF FanOutError(objs, failAt) = "none"
                        THEN RespondRef("leaveTeam", actor, 200, <<id>>)
                        ELSE RespondRef("leaveTeam", actor,
                                        ErrorStatus(FanOutError(objs, failAt)), <<id>>)

\* POST /api/teams/:id/transfer: the new owner is given the role 'admin' before the save
transferOwnership(actor, id, userId, failAt) ==
  /\ UNCHANGED <<projects, tasks, chats, sockets, strictQuery, inflight, clock, outbox>>
  /\ IF id \notin DOMAIN teams
     THEN /\ last' = Respond("transferOwnership", actor, 404)
          /\ UNCHANGED <<teams, users, notifications, nextId>>
     ELSE IF teams[id].creator # actor
     THEN /\ last' = RespondRef("transferOwnership", actor, 403, <<id, userId>>)
          /\ UNCHANGED <<teams, users, notifications, nextId>>
     ELSE IF MemberIndex(teams[id], userId) = 0
     THEN /\ last' = RespondRef("transferOwnership", actor, 404, <<id, userId>>)
          /\ UNCHANGED <<teams, users, notifications, nextId>>
     ELSE LET team == [teams[id] EXCEPT !.creator = userId,
                                        !.members[MemberIndex(teams[id], userId)].role = "admin"]
              objs == <<[recipient |-> userId, type |-> "team",
                         title |-> "Team Ownership Transferred",
                         content |-> "You are now the owner of the team",
                         team |-> id, createdBy |-> actor]>>
          IN IF ~ValidTeam(team)
             THEN /\ last' = RespondRef("transferOwnership", actor,
                                        ErrorStatus("ValidationError"), <<id, userId>>)
                  /\ UNCHANGED <<teams, users, notifications, nextId>>
             ELSE /\ teams' = [teams EXCEPT ![id] = team]
                  /\ FanOut(objs, failAt)
                  /\ nextId' = [nextId EXCEPT !.notification = @ + Saved(objs, failAt)]
                  /\ last' = IF FanOutError(objs, failAt) = "none"
                             THEN RespondRef("transferOwnership", actor, 200, <<id, userId>>)
                             ELSE RespondRef("transferOwnership", actor,
                                             ErrorStatus(FanOutError(objs, failAt)),
                                             <<id, userId>>)

\* POST /api/teams/:id/projects/:projectId
assignTeamToProject(actor, id, projectId, failAt) ==
  /\ UNCHANGED <<tasks, chats, sockets, strictQuery, inflight, clock, outbox>>
  /\ IF id \notin DOMAIN teams \/ projectId \notin DOMAIN projects
     THEN /\ last' = RespondRef("assignTeamToProject", actor, 404, <<projectId>>)
          /\ UNCHANGED <<teams, projects, users, notifications, nextId>>
     ELSE LET team == teams[id]
              project == projects[projectId]
              isTeamAdmin == \E i \in DOMAIN team.members :
                                team.members[i].user = actor /\ team.members[i].role = "admin"
              isProjectClient == project.client = actor
              rs == TeamRecipients(team, actor)
                      \o (IF isProjectClient THEN <<>> ELSE <<project.client>>)
              objs == [i \in DOMAIN rs |->
                         [recipient |-> rs[i], type |-> "project",
                          title |-> "Team Assigned to Project",
                          content |-> "The team has been assigned to the project",
                          team |-> id, project |-> projectId, createdBy |-> actor]]
          IN IF ~isTeamAdmin /\ ~isProjectClient
             THEN /\ last' = RespondRef("assignTeamToProject", actor, 403, <<projectId>>)
                  /\ UNCHANGED <<teams, projects, users, notifications, nextId>>
             ELSE IF project.status # "open"
             THEN /\ last' = RespondRef("assignTeamToProject", actor, 400, <<projectId>>)
                  /\ UNCHANGED <<teams, projects, users, notifications, nextId>>
             ELSE /\ projects' = [projects EXCEPT ![projectId].assignedTeam = id,
                                                  ![projectId].status = "in_progress"]
                  /\ teams' = [teams EXCEPT ![id] =
                                  [projects |-> Append(IF Has(team, "projects")
                                                       THEN team.projects ELSE <<>>,
                                                       projectId)] @@ team]
                  /\ FanOut(objs, failAt)
                  /\ nextId' = [nextId EXCEPT !.notification = @ + Saved(objs, failAt)]
                  /\ last' = IF FanOutError(objs, failAt) = "none"
                             THEN RespondRef("assignTeamToProject", actor, 200, <<projectId>>)
                             ELSE RespondRef("assignTeamToProject", actor,
                                             ErrorStatus(FanOutError(objs, failAt)),
                                             <<projectId>>)

\* ------------------------------------------------------------ notifications
\* notification.recipient.toString() on a document stored without recipient
OwnerError(notification) == notification.recipient = Undefined

\* PUT /api/notifications/:id/read; readAt is no path of the schema
markAsRead(actor, id) ==
  /\ UNCHANGED <<users, teams, projects, tasks, chats, nextId, sockets, strictQuery, inflight, clock, outbox>>
  /\ IF id \notin DOMAIN notifications
     THEN /\ last' = RespondRef("markAsRead", actor, 404, <<id>>)
          /\ UNCHANGED notifications
     ELSE IF OwnerError(notifications[id])
     THEN /\ last' = RespondRef("markAsRead", actor, ErrorStatus("TypeError"), <<id>>)
          /\ UNCHANGED notifications
     ELSE IF notifications[id].recipient # actor
     THEN /\ last' = RespondRef("markAsRead", actor, 403, <<id>>)
          /\ UNCHANGED notifications
     ELSE /\ notifications' = [notifications EXCEPT ![id].isRead = TRUE]
          /\ last' = RespondRef("markAsRead", actor, 200, <<id>>)

\* PUT /api/notifications/read-all
markAllAsRead(actor) ==
  /\ UNCHANGED <<users, teams, projects, tasks, chats, nextId, sockets, strictQuery, inflight, clock, outbox>>
  /\ notifications' =
       [n \in DOMAIN notifications |->
          IF notifications[n].recipient = actor /\ notifications[n].isRead = FALSE
          THEN [notifications[n] EXCEPT !.isRead = TRUE]
          ELSE notifications[n]]
  /\ last' = Respond("markAllAsRead", actor, 200)

\* DELETE /api/notifications/:id
deleteNotification(actor, id) ==
  /\ UNCHANGED <<users, teams, projects, tasks, chats, nextId, sockets, strictQuery, inflight, clock, outbox>>
  /\ IF id \notin DOMAIN notifications
     THEN /\ last' = RespondRef("deleteNotification", actor, 404, <<id>>)
          /\ UNCHANGED notifications
     ELSE IF OwnerError(notifications[id])
     THEN /\ last' = RespondRef("deleteNotification", actor, ErrorStatus("TypeError"), <<id>>)
          /\ UNCHANGED notifications
     ELSE IF notifications[id].recipient # actor
     THEN /\ last' = RespondRef("deleteNotification", actor, 403, <<id>>)
          /\ UNCHANGED notifications
     ELSE /\ notifications' = [n \in (DOMAIN notifications) \ {id} |-> notifications[n]]
          /\ last' = RespondRef("deleteNotification", actor, 200, <<id>>)

\* the filter { recipient: req.user.id, isRead: true }
ReadOf(actor) ==
  {n \in DOMAIN notifications :
     notifications[n].recipient = actor /\ notifications[n].isRead = TRUE}

\* the handler deleteReadNotifications, as called with req.user
deleteReadNotifications(actor) ==
  /\ UNCHANGED <<users, teams, projects, tasks, chats, nextId, sockets, strictQuery, inflight, clock, outbox>>
  /\ notifications' = [n \in (DOMAIN notifications) \ ReadOf(actor) |-> notifications[n]]
  /\ last' = Respond("deleteReadNotifications", actor, 200)

\* the prefixes the application mounts a router on
Mounts ==
  {"/api/auth", "/api/users", "/api/projects", "/api/teams", "/api/tasks", "/api/chats",
   "/api/admin"}

\* the request DELETE /api/notifications/read: no router is mounted on /api/notifications,
\* so the request falls through to the 404 of the framework; on the notification router
\* DELETE /:id is registered before DELETE /read, so the request would run
\* deleteNotification with id 'read', where findById raises a CastError
requestDeleteRead(actor) ==
  /\ UNCHANGED <<users, teams, projects, tasks, chats, notifications, nextId, sockets,
                 strictQuery, inflight, clock, outbox>>
  /\ last' = IF "/api/notifications" \in Mounts
             THEN Respond("DELETE /api/notifications/read", actor, ErrorStatus("CastError"))
             ELSE Respond("DELETE /api/notifications/read", actor, 404)

\* ------------------------------------------------------------ authentication
Admin == "a1"               \* a User of role 'admin'

\* a bearer credential: the id it was issued for and whether jwt.verify accepts it;
\* NoToken is the request or handshake that carries none
NoToken == [id |-> Undefined, signed |-> FALSE]

Tokens == {NoToken} \cup [id : Users \cup {Admin, Ghost}, signed : BOOLEAN]

\* auth middleware of the HTTP routes: the user put on req.user, Undefined for a 401
protect(token) ==
  IF token = NoToken THEN Undefined
  ELSE IF ~token.signed THEN Undefined
  ELSE IF token.id \notin DOMAIN users THEN Undefined
  ELSE IF ~users[token.id].isActive THEN Undefined
  ELSE token.id

\* io.use middleware of the socket server: the user put on socket.user, Undefined
\* when next is called with an error
handshake(token) ==
  IF token = NoToken THEN Undefined
  ELSE IF ~token.signed THEN Undefined
  ELSE IF token.id \notin DOMAIN users THEN Undefined
  ELSE token.id

\* a client connects: the handshake, then the connection handler joins the rooms of
\* socket.user and registers the event handlers
connection(token) ==
  /\ UNCHANGED <<users, teams, projects, tasks, chats, notifications, nextId, strictQuery, inflight, clock, outbox>>
  /\ IF handshake(token) = Undefined
     THEN /\ last' = [Emit("connection", Undefined, "connect_error") EXCEPT !.ref = <<token>>]
          /\ UNCHANGED sockets
     ELSE /\ sockets' = Put(sockets, handshake(token),
                            [teams |-> users[handshake(token)].teams,
                             projects |-> users[handshake(token)].projects])
          /\ last' = [Emit("connection", handshake(token), "connect") EXCEPT !.ref = <<token>>]

\* PUT /api/admin/users/:id behind protect, isVerified and authorize('admin'), with
\* isActive in the body
updateUser(token, id, isActive) ==
  /\ UNCHANGED <<teams, projects, tasks, chats, notifications, nextId, sockets, strictQuery, inflight, clock, outbox>>
  /\ IF protect(token) = Undefined
     THEN /\ last' = Respond("updateUser", Undefined, 401)
          /\ UNCHANGED users
     ELSE IF ~users[protect(token)].isVerified \/ users[protect(token)].role # "admin"
     THEN /\ last' = Respond("updateUser", protect(token), 403)
          /\ UNCHANGED users
     ELSE IF id \notin DOMAIN users
     THEN /\ last' = Respond("updateUser", protect(token), 404)
          /\ UNCHANGED users
     ELSE /\ users' = [users EXCEPT ![id].isActive = isActive]
          /\ last' = RespondRef("updateUser", protect(token), 200, <<id>>)

\* ------------------------------------------------------------ specifications
Contents == {"hello", Undefined}

\* the direct messages of the model are addressed to u2 (or to nobody)
Recipients == {"u2", Ghost, Undefined}

\* the model sends MaxChats messages at most
CanSend == nextId.chat <= MaxChats

NextSend ==
  \/ \E actor \in Users, r \in Recipients, c \in Contents, f \in 0..1 :
       CanSend /\ sendPrivateMessage(actor, r, c, f)
  \/ \E actor \in Users, t \in TeamIds \cup {Ghost}, c \in Contents, f \in 0..2 :
       CanSend /\ sendTeamMessage(actor, t, c, f)
  \/ \E actor \in Users, p \in {1, nextId.project}, c \in Contents, f \in 0..2 :
       CanSend /\ sendProjectMessage(actor, p, c, f)
  \/ \E actor \in Users, r \in {"u2", Undefined}, c \in Contents :
       CanSend /\ socketPrivateMessage(actor, r, c)
  \/ \E actor \in Users, t \in TeamIds \cup {Ghost}, c \in Contents :
       CanSend /\ socketTeamMessage(actor, t, c)

SpecSend == InitTeams /\ [][NextSend]_vars

\* reading: u1 writes to u2 and to the team, u2 to the project; everybody reads
IdSets == {{id} : id \in DOMAIN chats} \cup {DOMAIN chats, {}}

NextRead ==
  \/ CanSend /\ sendPrivateMessage("u1", "u2", "hello", 0)
  \/ CanSend /\ sendTeamMessage("u1", "t1", "hello", 0)
  \/ CanSend /\ sendProjectMessage("u2", 1, "hello", 0)
  \/ \E actor \in Users, u \in Users \cup {Ghost} : getPrivateMessages(actor, u)
  \/ \E actor \in Users, t \in TeamIds \cup {Ghost} : getTeamMessages(actor, t)
  \/ \E actor \in Users, p \in {1, nextId.project} : getProjectMessages(actor, p)
  \/ \E actor \in Users, ids \in IdSets : markMessagesAsRead(actor, ids)

SpecRead == Init /\ [][NextRead]_vars

\* reacting: messages are sent, then reacted to
NextReact ==
  \/ CanSend /\ sendPrivateMessage("u1", "u2", "hello", 0)
  \/ CanSend /\ sendTeamMessage("u1", "t1", "hello", 0)
  \/ CanSend /\ sendProjectMessage("u2", 1, "hello", 0)
  \/ \E actor \in Users, id \in 1..MaxChats, e \in Emojis \cup {Undefined} :
       reactToMessage(actor, id, e)

SpecReact == InitNoQuery /\ [][NextReact]_vars

\* the life of a message: it is sent over HTTP or over a socket, whose payload may lack
\* the recipient, reacted to, replied to and deleted
NextMessage ==
  \/ CanSend /\ sendPrivateMessage("u1", "u2", "hello", 0)
  \/ \E actor \in {"u1", "u2"} : CanSend /\ sendTeamMessage(actor, "t1", "hello", 0)
  \/ CanSend /\ sendProjectMessage("u2", 1, "hello", 0)
  \/ \E r \in {"u2", Undefined} : CanSend /\ socketPrivateMessage("u1", r, "hello")
  \/ \E actor \in Users, id \in 1..MaxChats :
       CanSend /\ replyToMessage(actor, id, "hello", 0)
  \/ \E actor \in Users, id \in 1..MaxChats : reactToMessage(actor, id, "like")
  \/ \E actor \in Users, id \in 1..MaxChats : deleteMessage(actor, id)

SpecMessage == InitNoQuery /\ [][NextMessage]_vars

\* two requests react to the same message at the same time
NextRace ==
  \/ CanSend /\ sendTeamMessage("u1", "t1", "hello", 0)
  \/ \E r \in Requests, actor \in {"u1", "u2"}, id \in {1, MaxChats + 1} :
       reactToMessageRead(r, actor, id, "like")
  \/ \E r \in Requests : reactToMessageSave(r)

SpecRace == InitNoQuery /\ [][NextRace]_vars

\* projects and their tasks: clients create projects, students bid, clients accept or
\* reject; the tasks of the stored project are assigned and deleted.
\* The model stops submitting and deciding proposals once MaxNotifications notifications
\* are stored.
CanNotify == nextId.notification <= MaxNotifications

NextProject ==
  \/ \E actor \in Users : nextId.project <= MaxProjects /\ createProject(actor)
  \/ \E actor \in {"u1", "u2"}, id \in 1..MaxProjects, f \in 0..1 :
       CanNotify /\ submitProposal(actor, id, f)
  \/ \E actor \in {"u1", "u2"}, id \in 1..MaxProjects, q \in 1..nextId.proposal,
        st \in {"accepted", "rejected", "pending"} :
       CanNotify /\ updateProposalStatus(actor, id, q, st, 0)
  \/ \E k \in 1..nextId.task : assignTask("u1", [id |-> k], "u2", 0)
  \/ \E actor \in Users, k \in 1..nextId.task : deleteTask(actor, k)
  \/ \E actor \in {"u1", "u3"}, p \in {1, NoId}, t \in {NoId, 1} :
       nextId.task <= MaxTasks /\ createTask(actor, p, "not_started",
                                          IF t = NoId THEN <<>> ELSE <<t>>, t)
  \/ \E actor \in {"u1", "u3"}, k \in 1..nextId.task :
       \E params \in {[id |-> k], [id |-> k, taskId |-> k]} :
          nextId.task <= MaxTasks /\ createSubtask(actor, params, "not_started")
  \/ \E actor \in {"u1", "u2"}, k \in 1..nextId.task, d \in 1..2 : updateTask(actor, k, <<d>>)
  \/ \E k \in 1..nextId.task, d \in 1..2 : addDependency("u1", [id |-> k], d)
  \/ \E k \in 1..2, d \in 1..2 : removeDependency("u2", [id |-> k, dependencyId |-> d])

SpecProject == InitNoQuery /\ [][NextProject]_vars

\* deciding proposals while the store may refuse the write of the notification; a
\* refused decision can be repeated, until a user holds MaxUserProjects projects
CanDecide ==
  /\ CanNotify
  /\ \A u \in Users : Len(users[u].projects) < MaxUserProjects

NextDecide ==
  \/ nextId.project <= MaxProjects /\ createProject("u1")
  \/ \E actor \in {"u2", "u3"}, id \in 1..MaxProjects :
       CanNotify /\ submitProposal(actor, id, 0)
  \/ \E actor \in {"u1", "u2"}, id \in 1..MaxProjects, q \in 1..nextId.proposal,
        st \in {"accepted", "rejected"}, f \in 0..1 :
       CanDecide /\ updateProposalStatus(actor, id, q, st, f)

SpecDecide == InitNoQuery /\ [][NextDecide]_vars

\* the status of a project: clients create, update and complete projects, accept
\* proposals and assign a team
NextStatus ==
  \/ nextId.project <= MaxProjects /\ createProject("u1")
  \/ \E id \in 1..MaxProjects : CanNotify /\ submitProposal("u3", id, 0)
  \/ \E id \in 1..MaxProjects, q \in 1..nextId.proposal :
       CanDecide /\ updateProposalStatus("u1", id, q, "accepted", 0)
  \/ \E actor \in {"u1", "u2"}, id \in 1..MaxProjects, st \in {"review", "completed", "done"} :
       updateProject(actor, id, st)
  \/ \E actor \in {"u1", "u2"}, id \in 1..MaxProjects : CanNotify /\ completeProject(actor, id, 0)
  \/ \E actor \in {"u1", "u2"}, id \in 1..MaxProjects :
       CanNotify /\ assignTeamToProject(actor, "t1", id, 0)

SpecStatus == InitNoQuery /\ [][NextStatus]_vars

\* bids: students submit proposals, two requests at a time, while the client accepts
NextBid ==
  \/ nextId.project <= MaxProjects /\ createProject("u1")
  \/ \E r \in Requests, actor \in {"u1", "u2", "u3"}, id \in 1..(MaxProjects + 1) :
       CanNotify /\ submitProposalRead(r, actor, id)
  \/ \E r \in Requests : submitProposalSave(r, 0)
  \/ \E id \in 1..MaxProjects, q \in 1..nextId.proposal :
       CanDecide /\ updateProposalStatus("u1", id, q, "accepted", 0)

SpecBid == InitNoQuery /\ [][NextBid]_vars

\* teams: members come and go, the creator hands the team over
TeamBodies ==
  {[name |-> "renamed"], [creator |-> "u3"], [members |-> <<>>]}

NextTeam ==
  \/ \E actor \in Users : createTeam(actor)
  \/ \E actor \in Users, id \in {"t1", "t2"}, body \in TeamBodies : updateTeam(actor, id, body)
  \/ \E actor \in Users, id \in {"t1", "t2"} : acceptInvitation(actor, id)
  \/ \E actor \in Users, id \in {"t1", "t2"}, userId \in Users :
       removeMember(actor, id, userId, 0)
  \/ \E actor \in Users, id \in {"t1", "t2"} : leaveTeam(actor, id, 0)
  \/ \E actor \in Users, id \in {"t1", "t2"}, userId \in Users :
       transferOwnership(actor, id, userId, 0)

SpecTeam == InitTeams /\ [][NextTeam]_vars

\* ------------------------------------------------------------ accounts
ResetLife == 1              \* 30 minutes, the life of a token of forgotPassword
VerifyLife == 2             \* 24 hours, the life of a token of register and resendVerification
MaxMails == 3               \* calls of the email service considered
MaxClock == 3               \* how far the clock runs

\* the pre-save hook: bcrypt.hash of the password that was set
Hash(password) == <<"bcrypt", password>>

\* crypto.randomBytes(20).toString('hex'): a value no earlier call returned
NewToken == Len(outbox) + 1

\* User.findOne({ resetPasswordToken: token, resetPasswordExpire: { $gt: Date.now() } })
FindByToken(token) ==
  {u \in DOMAIN users :
     users[u].resetPasswordToken = token /\ users[u].resetPasswordExpire > clock}

Mail(to, token, kind) == [to |-> to, token |-> token, kind |-> kind]

\* POST /api/auth/register
register(email, password) ==
  /\ UNCHANGED <<teams, projects, tasks, chats, notifications, nextId, sockets, strictQuery,
                 inflight, clock>>
  /\ IF email \in DOMAIN users
     THEN /\ last' = RespondRef("register", Undefined, 400, <<email>>)
          /\ UNCHANGED <<users, outbox>>
     ELSE /\ users' = Put(users, email,
                          [role |-> "student", name |-> email, teams |-> <<>>,
                           projects |-> <<>>, notifications |-> <<>>, isVerified |-> FALSE,
                           isActive |-> TRUE, password |-> Hash(password),
                           resetPasswordToken |-> NewToken,
                           resetPasswordExpire |-> clock + VerifyLife])
          /\ outbox' = Append(outbox, Mail(email, NewToken, "verification"))
          /\ last' = RespondRef("register", Undefined, 201, <<email, NewToken>>)

\* POST /api/auth/forgot-password
forgotPassword(email) ==
  /\ UNCHANGED <<teams, projects, tasks, chats, notifications, nextId, sockets, strictQuery,
                 inflight, clock>>
  /\ IF email \notin DOMAIN users
     THEN /\ last' = RespondRef("forgotPassword", Undefined, 404, <<email>>)
          /\ UNCHANGED <<users, outbox>>
     ELSE /\ users' = [users EXCEPT ![email].resetPasswordToken = NewToken,
                                    ![email].resetPasswordExpire = clock + ResetLife]
          /\ outbox' = Append(outbox, Mail(email, NewToken, "passwordReset"))
          /\ last' = RespondRef("forgotPassword", Undefined, 200, <<email, NewToken>>)

\* PUT /api/auth/reset-password/:resetToken
resetPassword(resetToken, password) ==
  /\ UNCHANGED <<teams, projects, tasks, chats, notifications, nextId, sockets, strictQuery,
                 inflight, clock, outbox>>
  /\ IF FindByToken(resetToken) = {}
     THEN /\ last' = RespondRef("resetPassword", Undefined, 400, <<resetToken>>)
          /\ UNCHANGED users
     ELSE \E u \in FindByToken(resetToken) :
            /\ users' = [users EXCEPT ![u].password = Hash(password),
                                      ![u].resetPasswordToken = NoId,
                                      ![u].resetPasswordExpire = 0]
            /\ last' = RespondRef("resetPassword", u, 200, <<resetToken>>)

\* GET /api/auth/verify-email/:token
verifyEmail(token) ==
  /\ UNCHANGED <<teams, projects, tasks, chats, notifications, nextId, sockets, strictQuery,
                 inflight, clock, outbox>>
  /\ IF FindByToken(token) = {}
     THEN /\ last' = RespondRef("verifyEmail", Undefined, 400, <<token>>)
          /\ UNCHANGED users
     ELSE \E u \in FindByToken(token) :
            /\ users' = [users EXCEPT ![u].isVerified = TRUE,
                                      ![u].resetPasswordToken = NoId,
                                      ![u].resetPasswordExpire = 0]
            /\ last' = RespondRef("verifyEmail", u, 200, <<token>>)

\* POST /api/auth/resend-verification, behind protect
resendVerification(actor) ==
  /\ UNCHANGED <<teams, projects, tasks, chats, notifications, nextId, sockets, strictQuery,
                 inflight, clock>>
  /\ actor \in DOMAIN users
  /\ IF users[actor].isVerified
     THEN /\ last' = Respond("resendVerification", actor, 400)
          /\ UNCHANGED <<users, outbox>>
     ELSE /\ users' = [users EXCEPT ![actor].resetPasswordToken = NewToken,
                                    ![actor].resetPasswordExpire = clock + VerifyLife]
          /\ outbox' = Append(outbox, Mail(actor, NewToken, "verification"))
          /\ last' = RespondRef("resendVerification", actor, 200, <<NewToken>>)

\* time passes
Tick ==
  /\ clock < MaxClock
  /\ clock' = clock + 1
  /\ last' = Respond("tick", Undefined, 0)
  /\ UNCHANGED <<users, teams, projects, tasks, chats, notifications, nextId, sockets,
                 strictQuery, inflight, outbox>>

\* accounts: u1 and u2 are verified and hold no token, u3 has no account yet
InitAccounts ==
  /\ users = [u \in {"u1", "u2"} |->
                [password |-> Hash("p0"), resetPasswordToken |-> NoId,
                 resetPasswordExpire |-> 0] @@ InitUsers(<<"u1", "u2">>)[u]]
  /\ teams = [t \in TeamIds |-> InitTeam(<<"u1", "u2">>)]
  /\ projects = (1 :> InitProject("t1"))
  /\ tasks = InitTasks
  /\ chats = <<>>
  /\ notifications = <<>>
  /\ nextId = [chat |-> 1, notification |-> 1, project |-> 2, task |-> 3, proposal |-> 2]
  /\ sockets = <<>>
  /\ strictQuery = TRUE
  /\ inflight = <<>>
  /\ clock = 0
  /\ outbox = <<>>
  /\ last = Respond("init", Undefined, 0)

CanMail == Len(outbox) < MaxMails

NextAccounts ==
  \/ \E email \in {"u1", "u3"} : CanMail /\ register(email, "p0")
  \/ \E email \in {"u1", "u3", Ghost} : CanMail /\ forgotPassword(email)
  \/ \E t \in 1..(MaxMails + 1) : resetPassword(t, "p1")
  \/ \E t \in 1..(MaxMails + 1) : verifyEmail(t)
  \/ \E actor \in {"u1", "u3"} : CanMail /\ resendVerification(actor)
  \/ Tick

SpecAccounts == InitAccounts /\ [][NextAccounts]_vars

\* sockets: users connected when the store was as Init left it keep sending while a
\* team is deleted over HTTP
NextSocket ==
  \/ \E actor \in Users, t \in TeamIds : deleteTeam(actor, t)
  \/ \E actor \in Users, t \in TeamIds :
       CanSend /\ socketTeamMessage(actor, t, "hello")
  \/ \E actor \in Users, t \in TeamIds :
       CanSend /\ sendTeamMessage(actor, t, "hello", 0)
  \/ \E actor \in Users :
       CanSend /\ sendProjectMessage(actor, 1, "hello", 0)
  \/ \E actor \in Users, p \in {1, nextId.project}, c \in Contents :
       CanNotify /\ socketProjectUpdate(actor, p, c)

SpecSocket == InitNoQuery /\ [][NextSocket]_vars

\* credentials: nobody is connected at first; an administrator deactivates and
\* reactivates users while clients connect and send
InitAuth ==
  /\ users = Put(InitUsers(<<"u1", "u2">>), Admin,
                 [role |-> "admin", name |-> Admin, teams |-> <<>>, projects |-> <<>>,
                  notifications |-> <<>>, isVerified |-> TRUE, isActive |-> TRUE])
  /\ teams = [t \in TeamIds |-> InitTeam(<<"u1", "u2">>)]
  /\ projects = (1 :> InitProject("t1"))
  /\ tasks = InitTasks
  /\ chats = <<>>
  /\ notifications = <<>>
  /\ nextId = [chat |-> 1, notification |-> 1, project |-> 2, task |-> 3, proposal |-> 2]
  /\ sockets = <<>>
  /\ strictQuery = TRUE
  /\ inflight = <<>>
  /\ clock = 0
  /\ outbox = <<>>
  /\ last = Respond("init", Undefined, 0)

NextAuth ==
  \/ \E token \in Tokens : connection(token)
  \/ \E token \in Tokens, id \in Users \cup {Ghost}, isActive \in BOOLEAN :
       updateUser(token, id, isActive)
  \/ \E actor \in Users : CanSend /\ socketPrivateMessage(actor, "u1", "hello")

SpecAuth == InitAuth /\ [][NextAuth]_vars

\* notifications: messages and project updates announce themselves, the users mark
\* what they got as read and delete it
NextNotification ==
  \/ \E actor \in {"u1", "u2"} : CanSend /\ sendTeamMessage(actor, "t1", "hello", 0)
  \/ \E actor \in Users : CanNotify /\ socketProjectUpdate(actor, 1, "hello")
  \/ \E actor \in Users, id \in 1..MaxNotifications : markAsRead(actor, id)
  \/ \E actor \in Users : markAllAsRead(actor)
  \/ \E actor \in Users, id \in 1..MaxNotifications : deleteNotification(actor, id)
  \/ \E actor \in Users : deleteReadNotifications(actor)
  \/ \E actor \in Users : requestDeleteRead(actor)

SpecNotification == InitNoQuery /\ [][NextNotification]_vars

\* ------------------------------------------------------------ properties: chat send
SendOps ==
  {"sendPrivateMessage", "sendTeamMessage", "sendProjectMessage", "private-message",
   "team-message"}

SendSucceeded(r) == r.status = 201 \/ r.emit \in {"message-sent", "new-team-message"}

SendRejected(r) == r.status \in {400, 403, 404} \/ r.emit = "error"

\* C1: every successful chat send (the three HTTP sends and the two socket events)
\* persists exactly one Chat document, whose sender is the authenticated actor; a send
\* that is rejected (validation, 404, 403, not a member) persists none.
C1_SendPersistsOneChat ==
  [][last'.op \in SendOps =>
       /\ SendSucceeded(last') =>
            \E id \in (DOMAIN chats') \ (DOMAIN chats) :
               /\ DOMAIN chats' = (DOMAIN chats) \cup {id}
               /\ \A k \in DOMAIN chats : chats'[k] = chats[k]
               /\ Has(chats'[id], "sender") /\ chats'[id].sender = last'.actor
       /\ SendRejected(last') => chats' = chats]_vars

\* a team message was accepted over HTTP and is stored under its sender
C1_Witness ==
  /\ last.op = "sendTeamMessage" /\ last.status = 201
  /\ \E id \in DOMAIN chats : chats[id].sender = last.actor /\ chats[id].isTeamMessage

\* the Notification documents a step stored
Created(before, after) == {after[n] : n \in (DOMAIN after) \ (DOMAIN before)}

TeamMemberSet(teamId) ==
  {teams[teamId].members[i].user : i \in DOMAIN teams[teamId].members}

\* C5: a team message sent by a member of a team of N members creates exactly N-1
\* Notification documents of type 'message', one per other member, none for the sender.
C5_TeamFanOut ==
  [][(last'.op \in {"sendTeamMessage", "team-message"} /\ SendSucceeded(last')) =>
       \E id \in (DOMAIN chats') \ (DOMAIN chats) :
          LET made == Created(notifications, notifications')
              others == TeamMemberSet(chats'[id].team) \ {last'.actor}
          IN /\ Cardinality((DOMAIN notifications') \ (DOMAIN notifications))
                  = Cardinality(TeamMemberSet(chats'[id].team)) - 1
             /\ \A n \in made : n.type = "message" /\ n.recipient \in others
             /\ \A u \in others : \E n \in made : n.recipient = u]_vars

\* C12: every persisted team message was sent by a user who was a member of the target
\* team at the moment of sending, and every persisted project message by the project's
\* client, an assigned freelancer or a member of the assigned team - over HTTP and over
\* the socket, also when the sender lost the membership while connected.
C12_SenderIsMember ==
  [][\A id \in (DOMAIN chats') \ (DOMAIN chats) :
        LET message == chats'[id] IN
        /\ message.isTeamMessage =>
              /\ message.team \in DOMAIN teams
              /\ message.sender \in TeamMemberSet(message.team)
        /\ message.isProjectMessage =>
              /\ message.project \in DOMAIN projects
              /\ LET project == projects[message.project] IN
                 \/ project.client = message.sender
                 \/ message.sender \in SeqToSet(project.assignedFreelancers)
                 \/ /\ project.assignedTeam \in DOMAIN teams
                    /\ message.sender \in TeamMemberSet(project.assignedTeam)]_vars

\* C13: every Notification that a handler persists has a recipient, and the recipient
\* is the id of an existing User.
C13_RecipientExists ==
  \A n \in DOMAIN notifications :
     /\ notifications[n].recipient # Undefined
     /\ notifications[n].recipient \in DOMAIN users

Completed(r) == r.status \in {200, 201} \/ (r.emit # "" /\ r.emit # "error")

Occurrences(seq, x) == Cardinality({i \in DOMAIN seq : seq[i] = x})

\* the users a message or an update of a project concerns, the actor left out
ProjectAudience(project, actor) ==
  ({project.client} \cup SeqToSet(project.assignedFreelancers)
     \cup (IF project.assignedTeam \in DOMAIN teams
           THEN TeamMemberSet(project.assignedTeam) ELSE {})) \ {actor}

\* C14: once a notifying handler has completed without error, every Notification it
\* persisted is listed exactly once in the notifications of its recipient, and one
\* Notification exists per affected user (for a project: per participant but the actor).
C14_FanOutPairsOwner ==
  [][Completed(last') =>
       LET new == (DOMAIN notifications') \ (DOMAIN notifications) IN
       /\ \A n \in new :
             /\ notifications'[n].recipient \in DOMAIN users'
             /\ Occurrences(users'[notifications'[n].recipient].notifications, n) = 1
       /\ \A n \in new :
             (notifications'[n].project \in DOMAIN projects /\ notifications'[n].type \in {"project", "message"}) =>
                \A u \in ProjectAudience(projects[notifications'[n].project], last'.actor) :
                   \E k \in new : notifications'[k].recipient = u]_vars

\* C10: when the primary mutation succeeded and the Notification write then fails, the
\* handler still answers with its success status (here: the private message is stored,
\* its notification is not, and the answer is 201).
C10_NotificationFailureHidden ==
  [][(/\ last'.op = "sendPrivateMessage"
      /\ DOMAIN chats' # DOMAIN chats
      /\ notifications' = notifications) => last'.status = 201]_vars

\* ------------------------------------------------------------ properties: chat read
ReadByUsers(doc) == {doc.readBy[i].user : i \in DOMAIN doc.readBy}

\* C4: a team or project message holds at most one readBy entry per user, however often
\* getTeamMessages, getProjectMessages and markMessagesAsRead run for that user, and
\* never an entry for its own sender.
C4_ReadByOncePerUser ==
  \A id \in DOMAIN chats :
     (chats[id].isTeamMessage \/ chats[id].isProjectMessage) =>
        /\ \A i, j \in DOMAIN chats[id].readBy :
              chats[id].readBy[i].user = chats[id].readBy[j].user => i = j
        /\ chats[id].sender \notin ReadByUsers(chats[id])

\* a reader who is already in readBy of a team message marks it as read again
C4_Witness ==
  /\ last.op = "markMessagesAsRead" /\ last.status = 200
  /\ \E id \in last.ref[1] :
        /\ chats[id].isTeamMessage
        /\ last.actor \in ReadByUsers(chats[id])
        /\ Cardinality(ReadByUsers(chats[id])) >= 2

\* C7: getTeamMessages by a user who is not a member of the team is answered 403,
\* returns no message and changes no message's read state.
C7_NonMemberCannotRead ==
  [][(/\ last'.op = "getTeamMessages"
      /\ last'.ref # <<>>
      /\ last'.actor \notin TeamMemberSet(last'.ref[1])) =>
       /\ last'.status = 403
       /\ last'.messages = {}
       /\ chats' = chats]_vars

\* a non-member asked for the messages of a team that has one, and was refused
C7_Witness ==
  /\ last.op = "getTeamMessages" /\ last.status = 403
  /\ last.actor \notin TeamMemberSet(last.ref[1])
  /\ \E id \in DOMAIN chats : chats[id].team = last.ref[1]

\* the direct messages a read-mark request of the actor covers
MarkedDirect(r, id) ==
  /\ chats[id].recipient = r.actor
  /\ ~chats[id].isTeamMessage /\ ~chats[id].isProjectMessage
  /\ \/ r.op = "markMessagesAsRead" /\ r.ref # <<>> /\ id \in r.ref[1]
     \/ r.op = "getPrivateMessages" /\ r.ref # <<>> /\ chats[id].sender = r.ref[1]

\* C9: marking a direct message as read (markMessagesAsRead with its id, or
\* getPrivateMessages for the conversation) by its recipient succeeds and leaves
\* isRead = true, the first time and every further time.
C9_MarkReadIdempotent ==
  [][\A id \in DOMAIN chats :
        MarkedDirect(last', id) => last'.status = 200 /\ chats'[id].isRead = TRUE]_vars

\* ------------------------------------------------------------ properties: reactions
ReactionsOf(doc, u) == {i \in DOMAIN doc.reactions : doc.reactions[i].user = u}

\* C2: for a user without a reaction on a message, two consecutive successful
\* reactToMessage calls with the same emoji leave the message without a reaction of
\* that user.
C2_ReactionToggleRoundTrip ==
  [][(/\ last.op = "reactToMessage" /\ last.status = 200 /\ last.ref[3] = FALSE
      /\ last'.op = "reactToMessage" /\ last'.status = 200
      /\ last'.actor = last.actor
      /\ last'.ref[1] = last.ref[1]
      /\ last'.ref[2] = last.ref[2]) =>
       ReactionsOf(chats'[last'.ref[1]], last'.actor) = {}]_vars

\* C3: after any sequence of reactToMessage calls every message holds at most one
\* reaction per user: a further reaction replaces the earlier one.
C3_OneReactionPerUser ==
  \A id \in DOMAIN chats : \A u \in Users : Cardinality(ReactionsOf(chats[id], u)) <= 1

\* a user who had a reaction on the message reacted again, next to another user's reaction
C3_Witness ==
  /\ last.op = "reactToMessage" /\ last.status = 200 /\ last.ref[3] = TRUE
  /\ Cardinality(ReactionsOf(chats[last.ref[1]], last.actor)) = 1
  /\ Len(chats[last.ref[1]].reactions) = 2

\* ------------------------------------------------------------ properties: proposals
\* the notification contents of the model that contain the word "accepted"
ContainsAccepted == {"Your proposal for the project has been accepted!"}

ProposalOf(project, proposalId) ==
  project.proposals[CHOOSE i \in DOMAIN project.proposals :
                       project.proposals[i]._id = proposalId]

\* C6: once the client has accepted a freelancer's proposal with updateProposalStatus,
\* the project is 'in_progress', assignedFreelancers holds the freelancer, the proposal
\* is 'accepted', and a Notification of type 'proposal' whose content contains
\* "accepted" exists for that freelancer.
C6_AcceptedProposal ==
  [][(/\ last'.op = "updateProposalStatus" /\ last'.status = 200
      /\ last'.ref[3] = "accepted") =>
       LET project == projects'[last'.ref[1]]
           proposal == ProposalOf(project, last'.ref[2])
       IN /\ project.status = "in_progress"
          /\ proposal.freelancer \in SeqToSet(project.assignedFreelancers)
          /\ proposal.status = "accepted"
          /\ \E n \in DOMAIN notifications' :
                /\ notifications'[n].type = "proposal"
                /\ notifications'[n].recipient = proposal.freelancer
                /\ notifications'[n].content \in ContainsAccepted]_vars

\* the whole scenario: a project a client created in the model, a proposal a student
\* submitted to it, accepted by the client
C6_Witness ==
  /\ last.op = "updateProposalStatus" /\ last.status = 200
  /\ last.ref[3] = "accepted"
  /\ projects[last.ref[1]].client = last.actor
  /\ projects[last.ref[1]].assignedTeam = Undefined
  /\ projects[last.ref[1]].status = "in_progress"
  /\ ProposalOf(projects[last.ref[1]], last.ref[2]).status = "accepted"

\* C11: the primary mutation is persisted before the first Notification write, so a
\* failing Notification write never leaves the primary action uncommitted or partly
\* committed (here: a decision on a proposal whose notification the store refuses is
\* stored all the same).
C11_PrimaryCommittedFirst ==
  [][(/\ last'.op = "updateProposalStatus" /\ last'.status = 500
      /\ Len(last'.ref) = 3) =>
       LET project == projects'[last'.ref[1]]
           proposal == ProposalOf(project, last'.ref[2])
       IN /\ proposal.status = last'.ref[3]
          /\ last'.ref[3] = "accepted" =>
                /\ project.status = "in_progress"
                /\ proposal.freelancer \in SeqToSet(project.assignedFreelancers)]_vars

\* the task a request of the task routes names: the routes mount /:id
RoutedTaskId(params) == IF Has(params, "id") THEN params.id ELSE ParamTaskId(params)

\* C15: the notification a domain handler constructs has a type of the enumerated set, so
\* its write passes validation and the handler completes: an assignTask request of the
\* project's client that names a stored task and a freelancer of its project who is not
\* yet assigned answers 200 and stores a notification whose type is in the enumeration
C15_AssignTaskNotifies ==
  [][(/\ last'.op = "assignTask"
      /\ RoutedTaskId(last'.ref[1]) \in DOMAIN tasks
      /\ IsProjectClient(tasks[RoutedTaskId(last'.ref[1])], last'.actor)
      /\ IsAssignedFreelancer(tasks[RoutedTaskId(last'.ref[1])], last'.ref[2])
      /\ last'.ref[2] \notin SeqToSet(tasks[RoutedTaskId(last'.ref[1])].assignedTo))
     => /\ last'.status = 200
        /\ \E n \in (DOMAIN notifications') \ (DOMAIN notifications) :
              notifications'[n].type \in NotificationTypes]_vars

\* ------------------------------------------------------------ properties: tasks
\* C8: a successful deleteTask of t deletes t and every task listed in t.subtasks and
\* takes t off its project's tasks and off its parent's subtasks; a deleteTask by a
\* user who is neither the project's client nor t's creator is answered 403 and
\* deletes nothing.
C8_DeleteTaskCascade ==
  [][(last'.op = "deleteTask" /\ last'.ref # <<>>) =>
       LET id == last'.ref[1]
           t == tasks[id]
       IN IF last'.status = 200
          THEN /\ DOMAIN tasks' = (DOMAIN tasks) \ (SeqToSet(t.subtasks) \cup {id})
               /\ id \notin SeqToSet(projects'[t.project].tasks)
               /\ t.parentTask \in DOMAIN tasks' =>
                    id \notin SeqToSet(tasks'[t.parentTask].subtasks)
          ELSE (projects[t.project].client # last'.actor /\ t.createdBy # last'.actor) =>
                 last'.status = 403 /\ tasks' = tasks /\ projects' = projects]_vars

\* ------------------------------------------------------------ properties: sockets
\* C17: the socket handshake accepts a credential exactly when the HTTP auth middleware
\* accepts it: a connection with a missing or invalid token, with the token of a user
\* that does not exist, or with the token of a deactivated user is refused and registers
\* nothing, and a credential HTTP accepts yields a socket bound to the same user.
C17_HandshakeMatchesProtect ==
  [][last'.op = "connection" =>
       IF protect(last'.ref[1]) = Undefined
       THEN last'.emit = "connect_error" /\ sockets' = sockets
       ELSE /\ last'.emit = "connect"
            /\ last'.actor = protect(last'.ref[1])
            /\ last'.actor \in DOMAIN sockets']_vars

\* ------------------------------------------------------------ properties: deletion
MessageOps == {"reactToMessage", "replyToMessage", "deleteMessage"}

\* the ids of the messages that were stored and are deleted
Deleted == (1..(nextId.chat - 1)) \ DOMAIN chats

\* C18: a message is deleted by its sender only: deleteMessage by another user is answered
\* 403 and leaves the stored messages as they were, deleteMessage by the sender removes
\* the document and nothing else, and from then on every react, reply or delete that
\* names the deleted message is answered 404 and the message stays deleted.
C18_DeleteBySenderIsTerminal ==
  [][/\ (last'.op = "deleteMessage" /\ last'.ref[1] \in DOMAIN chats) =>
          IF chats[last'.ref[1]].sender = last'.actor
          THEN /\ last'.status = 200
               /\ DOMAIN chats' = (DOMAIN chats) \ {last'.ref[1]}
               /\ \A k \in DOMAIN chats' : chats'[k] = chats[k]
          ELSE last'.status = 403 /\ chats' = chats
     /\ (last'.op \in MessageOps /\ Len(last'.ref) > 0 /\ last'.ref[1] \in Deleted) =>
          last'.status = 404 /\ chats' = chats
     /\ Deleted \subseteq Deleted']_vars

\* a reply that names a deleted message was answered 404
C18_Witness ==
  /\ last.op = "replyToMessage" /\ last.status = 404
  /\ last.ref[1] \in Deleted

\* ------------------------------------------------------------ properties: notifications
ReadOps == {"markAsRead", "markAllAsRead"}

\* C19: the read state of a Notification is monotonic: it is created unread, markAsRead
\* and markAllAsRead only move it to read, nothing returns a read Notification to unread,
\* only read-marking and deletion change a stored Notification, and markAsRead and
\* deleteNotification by a user who is not its recipient are answered 403 and change
\* nothing.
C19_ReadStateMonotonic ==
  [][/\ \A n \in (DOMAIN notifications') \ (DOMAIN notifications) :
          notifications'[n].isRead = FALSE
     /\ \A n \in (DOMAIN notifications) \cap (DOMAIN notifications') :
          /\ notifications[n].isRead => notifications'[n].isRead
          /\ notifications'[n] # notifications[n] =>
               /\ last'.op \in ReadOps
               /\ notifications'[n] = [notifications[n] EXCEPT !.isRead = TRUE]
     /\ (DOMAIN notifications) \ (DOMAIN notifications') # {} =>
          last'.op \in {"deleteNotification", "deleteReadNotifications"}
     /\ (/\ last'.op \in {"markAsRead", "deleteNotification"}
         /\ last'.ref[1] \in DOMAIN notifications
         /\ notifications[last'.ref[1]].recipient # last'.actor) =>
          last'.status = 403 /\ notifications' = notifications]_vars

\* ------------------------------------------------------------ properties: targets
\* the targets a stored message has set
Targets(message) ==
  {p \in {"recipient", "team"} : message[p] # Undefined}
    \cup (IF message.project # NoId THEN {"project"} ELSE {})

\* C20: every persisted Chat message has exactly one of recipient, team and project set,
\* after any sequence of HTTP sends, replies and socket send events, the events whose
\* payload omits the target id included.
C20_ExactlyOneTarget ==
  \A id \in DOMAIN chats : Cardinality(Targets(chats[id])) = 1

\* C21: a DELETE request to /api/notifications/read by user u is handled by
\* deleteReadNotifications: it is answered 200 and removes exactly the Notifications with
\* recipient u and isRead = true, every other Notification staying as it was.
C21_DeleteReadRequest ==
  [][last'.op = "DELETE /api/notifications/read" =>
       /\ last'.status = 200
       /\ DOMAIN notifications' =
            {n \in DOMAIN notifications :
               ~(notifications[n].recipient = last'.actor /\ notifications[n].isRead)}
       /\ \A n \in DOMAIN notifications' : notifications'[n] = notifications[n]]_vars

\* ------------------------------------------------------------ properties: races
\* C22: two concurrent reactToMessage requests on a message each read the document,
\* change the reactions in application code and save; the save of a request that only
\* pushed is applied whatever was saved since it read the document, so an interleaving
\* leaves a result no sequence of the two requests gives (C22_Witness: one user ends with
\* two reactions).
C22_PushSavedUnchecked ==
  [][(last'.op = "reactToMessage.save" /\ last'.ref[1] \in DOMAIN chats /\ ~last'.ref[2]) =>
       /\ last'.status = 200
       /\ Len(chats'[last'.ref[1]].reactions) = Len(chats[last'.ref[1]].reactions) + 1
       /\ chats'[last'.ref[1]].reactions[Len(chats'[last'.ref[1]].reactions)].user
            = last'.actor]_vars

\* both requests of one user were saved and the user holds two reactions on the message
C22_Witness ==
  /\ last.op = "reactToMessage.save" /\ last.status = 200 /\ last.ref[3]
  /\ Cardinality({i \in DOMAIN chats[last.ref[1]].reactions :
                    chats[last.ref[1]].reactions[i].user = last.actor}) = 2

\* ------------------------------------------------------------ properties: task graph
\* no task is reached from one of its own dependencies
Acyclic(stored) ==
  \A t \in DOMAIN stored : \A i \in DOMAIN stored[t].dependencies :
     LET RECURSIVE Reach(_, _)
         Reach(c, fuel) ==
           \/ c = t
           \/ /\ fuel > 0 /\ c \in DOMAIN stored
              /\ \E j \in DOMAIN stored[c].dependencies :
                   Reach(stored[c].dependencies[j], fuel - 1)
     IN ~Reach(stored[t].dependencies[i], Cardinality(DOMAIN stored))

\* C23: the dependency graph of the tasks stays acyclic under createTask, updateTask,
\* addDependency and removeDependency, and an addDependency that would close a cycle, a
\* task depending on itself included, is answered 400 and leaves the dependencies of the
\* task as they were.
C23_DependenciesAcyclic ==
  [][/\ Acyclic(tasks) => Acyclic(tasks')
     /\ (/\ last'.op = "addDependency"
         /\ RoutedTaskId(last'.ref[1]) \in DOMAIN tasks
         /\ last'.ref[2] \in DOMAIN tasks
         /\ (IsProjectClient(tasks[RoutedTaskId(last'.ref[1])], last'.actor)
               \/ IsAssignedFreelancer(tasks[RoutedTaskId(last'.ref[1])], last'.actor))
         /\ DependsOn(last'.ref[2], RoutedTaskId(last'.ref[1]), Cardinality(DOMAIN tasks)))
        => last'.status = 400 /\ tasks' = tasks]_vars

\* ------------------------------------------------------------ properties: project status
\* C24: a project becomes 'completed' only by completeProject applied while it is
\* 'in_progress'; completeProject on a project in another status is answered 400 and
\* changes nothing; updateProject, updateProposalStatus and assignTeamToProject neither
\* move a project to 'completed' nor change the status of a project that is 'in_progress',
\* 'completed' or 'cancelled'.
C24_CompletedOnlyByComplete ==
  [][/\ \A id \in (DOMAIN projects) \cap (DOMAIN projects') :
          /\ (projects'[id].status = "completed" /\ projects[id].status # "completed") =>
               last'.op = "completeProject" /\ projects[id].status = "in_progress"
          /\ (/\ last'.op \in {"updateProject", "updateProposalStatus", "assignTeamToProject"}
              /\ projects[id].status \in {"in_progress", "completed", "cancelled"}) =>
               projects'[id].status = projects[id].status
     /\ (/\ last'.op = "completeProject"
         /\ last'.ref[1] \in DOMAIN projects
         /\ projects[last'.ref[1]].client = last'.actor
         /\ projects[last'.ref[1]].status # "in_progress") =>
          last'.status = 400 /\ projects' = projects /\ notifications' = notifications]_vars

\* ------------------------------------------------------------ properties: proposals, races
\* C25: a project holds at most one proposal per freelancer and proposals are added
\* only while the project is 'open', also when two submissions of one freelancer, or a
\* submission and an acceptance, run at the same time.
C25_OneProposalPerFreelancer ==
  [][\A id \in (DOMAIN projects) \cap (DOMAIN projects') :
       /\ Len(projects'[id].proposals) > Len(projects[id].proposals) =>
            projects[id].status = "open"
       /\ \A i, j \in DOMAIN projects'[id].proposals :
            projects'[id].proposals[i].freelancer = projects'[id].proposals[j].freelancer
              => i = j]_vars

\* ------------------------------------------------------------ properties: notification lists
\* C26: every id in a user's notifications list is the id of an existing Notification
\* whose recipient is that user, after any sequence of fan-outs, deleteNotification and
\* deleteReadNotifications calls.
C26_NotificationListsIntact ==
  \A u \in DOMAIN users :
    \A i \in DOMAIN users[u].notifications :
      /\ users[u].notifications[i] \in DOMAIN notifications
      /\ notifications[users[u].notifications[i]].recipient = u

C28_CreatorStaysMember ==
  [][/\ \A t \in DOMAIN teams' : IsMember(teams'[t], teams'[t].creator)
     /\ (/\ last'.op = "removeMember"
         /\ last'.ref # <<>>
         /\ IsMember(teams[last'.ref[1]], last'.actor)
         /\ last'.ref[2] = teams[last'.ref[1]].creator)
          => last'.status = 400 /\ teams' = teams
     /\ (/\ last'.op = "leaveTeam"
         /\ last'.ref # <<>>
         /\ last'.actor = teams[last'.ref[1]].creator)
          => last'.status = 400 /\ teams' = teams
     /\ (/\ last'.op = "transferOwnership"
         /\ last'.ref # <<>>
         /\ last'.actor = teams[last'.ref[1]].creator
         /\ ~IsMember(teams[last'.ref[1]], last'.ref[2]))
          => last'.status = 404 /\ teams' = teams]_vars

\* ------------------------------------------------------------ properties: readers
\* who may read the messages of a project: its client, an assigned freelancer or a member
\* of its assigned team
MayReadProject(p, u) ==
  /\ p \in DOMAIN projects
  /\ \/ projects[p].client = u
     \/ IsFreelancerOf(projects[p], u)
     \/ /\ projects[p].assignedTeam \in DOMAIN teams
        /\ IsMember(teams[projects[p].assignedTeam], u)

\* C29: a user entered in readBy of a team message is a member of that team when the
\* entry is made, and a user entered in readBy of a project message is then the client
\* of the project, one of its assigned freelancers or a member of its assigned team.
C29_ReadersAreAuthorized ==
  [][\A id \in (DOMAIN chats) \cap (DOMAIN chats') :
       \A u \in ReadByUsers(chats'[id]) \ ReadByUsers(chats[id]) :
         /\ chats[id].isTeamMessage = TRUE =>
              chats[id].team \in DOMAIN teams /\ IsMember(teams[chats[id].team], u)
         /\ chats[id].isProjectMessage = TRUE => MayReadProject(chats[id].project, u)]_vars

\* ------------------------------------------------------------ properties: reset tokens
\* C30: resetPassword changes the password of a user only on a token that forgotPassword
\* issued for that user, that has not expired and has not been used before; a token issued
\* for the verification of an email address (register, resendVerification) is not
\* accepted, and a token that resetPassword or verifyEmail has used is answered 400 on
\* any later use.
C30_ResetNeedsResetToken ==
  [][/\ \A u \in (DOMAIN users) \cap (DOMAIN users') :
          users'[u].password # users[u].password =>
            /\ last'.op = "resetPassword"
            /\ users[u].resetPasswordToken = last'.ref[1]
            /\ users[u].resetPasswordExpire > clock
            /\ \E i \in DOMAIN outbox :
                  outbox[i] = Mail(u, last'.ref[1], "passwordReset")
     /\ (last'.op \in {"resetPassword", "verifyEmail"} /\ last'.status = 200) =>
          \A u \in DOMAIN users' : users'[u].resetPasswordToken # last'.ref[1]
     /\ (/\ last'.op \in {"resetPassword", "verifyEmail"}
         /\ \A u \in DOMAIN users : users[u].resetPasswordToken # last'.ref[1])
          => last'.status = 400 /\ users' = users
     /\ \A u \in DOMAIN users' : users'[u].resetPasswordToken <= Len(outbox')]_vars

====
